---- MODULE Spec2Model ----
(***************************************************************************)
(* A model of the pattern-detection and risk-analysis core of the          *)
(* ml-analytics service (models/pattern_detector.py and                    *)
(* models/risk_calculator.py).                                             *)
(*                                                                         *)
(* Numbers.  Prices are integers (ticks).  A confidence or a reliability   *)
(* score is carried in thousandths (0.6 is 600), rounded down where the    *)
(* code takes a square root or a quotient.  Comparisons the code makes on  *)
(* floats (body / range < 0.1, |x - y| <= eps * mean) are made on the      *)
(* cross-multiplied integers, which agree with them on integer prices.     *)
(***************************************************************************)
EXTENDS Integers, Sequences, FiniteSets, TLC

VARIABLES
    pc,                 \* where the current request stands
    data,               \* the price series (DataFrame) of the request
    has_volume,         \* whether the DataFrame has a 'volume' column
    pattern_types,      \* the pattern_types argument of detect_patterns
    rsi_higher_low,     \* what the RSI library reports at the two last price lows
    missing_column,     \* the price column the DataFrame lacks, if any
    detect_raised,      \* whether detect_patterns raised
    all_patterns,       \* the list detect_patterns returns
    patterns_arg,       \* the list handed to calculate_reliability
    reliability_scores, \* the map calculate_reliability returns
    levels_arg,         \* the array handed to _cluster_levels
    clustered_levels,   \* the list _cluster_levels returns
    portfolio,          \* the portfolio argument of calculate_portfolio_risk
    timeframe,          \* its timeframe argument
    confidence_level,   \* its confidence_level argument
    rng,                \* what the random source delivers during the call
    draws,              \* how many random numbers have been drawn so far
    var_results,        \* what _calculate_var returned during the call
    risk_result,        \* the report calculate_portfolio_risk returns
    raised,             \* whether an exception left the call
    scenarios,          \* the scenarios argument of run_scenario_analysis
    scenario_results,   \* the map run_scenario_analysis returns
    independent_returns, \* the standard normal draws of _generate_correlated_returns
    fallback_returns,   \* the draws its except clause would make
    rounding_up,        \* whether a floating-point zero pivot comes out positive
    correlation_matrix, \* the correlation matrix the call built
    correlated_returns, \* the vector the call returns, and the path it took
    metrics,            \* the metrics handed to _generate_risk_recommendations
    advice,             \* the list it returns
    requests,           \* the requests on the shared instances: operation, accesses made
    last_trained,       \* the last_trained attribute of each model instance
    volatility_table,   \* self.default_volatilities of the risk calculator
    correlation_table,  \* self.default_correlations of the risk calculator
    access_log,         \* the accesses the requests have made to the instances
    now,                \* the clock
    days_result,        \* what _convert_timeframe_to_days returned
    trial_pnl,          \* the portfolio P&L of one simulation trial, and its method
    initialized,        \* mt5_service.initialized of the broker connector
    connection_config,  \* mt5_service.connection_config
    terminal,           \* the connection of the MetaTrader5 module to the terminal
    last_attempt,       \* how the most recent initialize/login attempt ended
    response,           \* the last response of the broker connector
    models,             \* the model cache of the analytics service (app.py)
    handlers,           \* where each request handler thread of the service stands
    constructions       \* how many instances of each model have been constructed

patternVars == <<data, has_volume, pattern_types, rsi_higher_low, missing_column,
                 detect_raised, all_patterns,
                 patterns_arg, reliability_scores, levels_arg, clustered_levels>>

riskVars == <<portfolio, timeframe, confidence_level, rng, draws, var_results,
              risk_result, raised>>

scenarioVars == <<scenarios, scenario_results>>

returnsVars == <<independent_returns, fallback_returns, rounding_up,
                 correlation_matrix, correlated_returns>>

recommendationVars == <<metrics, advice>>

instanceVars == <<requests, last_trained, volatility_table, correlation_table,
                  access_log, now>>

conversionVars == <<days_result>>

trialVars == <<trial_pnl>>

brokerVars == <<initialized, connection_config, terminal, last_attempt, response>>

cacheVars == <<models, handlers, constructions>>

restVars == <<conversionVars, trialVars, brokerVars, cacheVars>>

auxVars == <<scenarioVars, returnsVars, recommendationVars, instanceVars, restVars>>

vars == <<pc, patternVars, riskVars, auxVars>>

(***************************************************************************)
(* Small helpers on integers and sequences.                                *)
(***************************************************************************)
Abs(x) == IF x < 0 THEN -x ELSE x

Min2(a, b) == IF b < a THEN b ELSE a

Max2(a, b) == IF b > a THEN b ELSE a

RECURSIVE SumSeq(_)
SumSeq(s) == IF s = << >> THEN 0 ELSE Head(s) + SumSeq(Tail(s))

\* the sequence f, with its values computed once rather than at each use
AsSeq(f) == << >> \o f

RECURSIVE ConcatAll(_)
ConcatAll(ss) == IF ss = << >> THEN << >> ELSE Head(ss) \o ConcatAll(Tail(ss))

\* the elements of a finite set of integers, ascending
RECURSIVE SortedSeq(_)
SortedSeq(S) ==
    IF S = {} THEN << >>
    ELSE LET m == CHOOSE x \in S : \A y \in S : x <= y
         IN  <<m>> \o SortedSeq(S \ {m})

\* the largest r with r * r <= x, sought in lo..hi (lo * lo <= x is given)
RECURSIVE IsqrtIn(_, _, _)
IsqrtIn(x, lo, hi) ==
    IF lo >= hi THEN lo
    ELSE LET mid == (lo + hi + 1) \div 2
         IN  IF mid * mid <= x THEN IsqrtIn(x, mid, hi) ELSE IsqrtIn(x, lo, mid - 1)

Isqrt(x) == IsqrtIn(x, 0, 46340)

\* <<quotient, remainder>> of a * b by c, for a, b >= 0 and 0 < c < 2^30,
\* without forming a * b
RECURSIVE MulDivMod(_, _, _)
MulDivMod(a, b, c) ==
    IF b = 0 THEN <<0, 0>>
    ELSE LET h == MulDivMod(a, b \div 2, c)
             r2 == 2 * h[2]
             odd == IF b % 2 = 1 THEN a ELSE 0
             r3 == (r2 % c) + (odd % c)
         IN  <<2 * h[1] + (r2 \div c) + (odd \div c) + (r3 \div c), r3 % c>>

MulDiv(a, b, c) == MulDivMod(a, b, c)[1]

(***************************************************************************)
(* Pattern records.  An id f"{name}_{k}" is the pair <<name, k>>; times    *)
(* are positions in the series (0-based, as iloc); a pattern without       *)
(* target_price has touches = 0.                                           *)
(***************************************************************************)
Families == {"support_resistance", "trends", "candlestick", "technical"}

Signals == {"bullish", "bearish", "neutral"}

Pattern(id, type, name, start, end, conf, signal) ==
    [id |-> id, type |-> type, name |-> name, start_time |-> start,
     end_time |-> end, confidence |-> conf, signal |-> signal,
     level_sum |-> 0, touches |-> 0]

(***************************************************************************)
(* Candlestick matchers.  data is a sequence of candles; candle i of the   *)
(* code (0-based) is data[i + 1].                                          *)
(***************************************************************************)
body_size(c) == Abs(c.close - c.open)

range_size(c) == c.high - c.low

lower_shadow(c) == Min2(c.open, c.close) - c.low

upper_shadow(c) == c.high - Max2(c.open, c.close)

\* a matcher that takes a body of exactly a tenth of the range as well
IsDojiAtMostTenth(c) == range_size(c) > 0 /\ 10 * body_size(c) <= range_size(c)

IsDoji(c) == range_size(c) > 0 /\ 10 * body_size(c) < range_size(c)

IsHammer(c) ==
    /\ body_size(c) > 0
    /\ lower_shadow(c) > 2 * body_size(c)
    /\ upper_shadow(c) < body_size(c)
    /\ 5 * lower_shadow(c) > 3 * range_size(c)

\* a matcher that measures the upper shadow against the lower one, not
\* against the range
IsShootingStarAgainstLower(c) ==
    /\ body_size(c) > 0
    /\ upper_shadow(c) > 2 * body_size(c)
    /\ lower_shadow(c) < body_size(c)
    /\ upper_shadow(c) > lower_shadow(c)

IsShootingStar(c) ==
    /\ body_size(c) > 0
    /\ upper_shadow(c) > 2 * body_size(c)
    /\ lower_shadow(c) < body_size(c)
    /\ 5 * upper_shadow(c) > 3 * range_size(c)

\* a matcher that forgets to ask for a falling previous candle
IsEngulfingBullishAnyPrev(prev, curr) ==
    /\ curr.close > curr.open
    /\ curr.open < prev.close
    /\ curr.close > prev.open

IsEngulfingBullish(prev, curr) ==
    /\ prev.close < prev.open
    /\ curr.close > curr.open
    /\ curr.open < prev.close
    /\ curr.close > prev.open

IsEngulfingBearish(prev, curr) ==
    /\ prev.close > prev.open
    /\ curr.close < curr.open
    /\ curr.open > prev.close
    /\ curr.close < prev.open

\* a matcher that leaves the candle index out of the id
_detect_doji_one_id(d) ==
    LET h == SortedSeq({i \in 1..Len(d) : IsDoji(d[i])})
    IN  [k \in 1..Len(h) |->
            Pattern(<<"doji", 0>>, "candlestick", "Doji",
                    h[k] - 1, h[k] - 1, 600, "neutral")]

_detect_doji(d) ==
    LET h == SortedSeq({i \in 1..Len(d) : IsDoji(d[i])})
    IN  [k \in 1..Len(h) |->
            Pattern(<<"doji", h[k] - 1>>, "candlestick", "Doji",
                    h[k] - 1, h[k] - 1, 600, "neutral")]

_detect_hammer(d) ==
    LET h == SortedSeq({i \in 1..Len(d) : IsHammer(d[i])})
    IN  [k \in 1..Len(h) |->
            Pattern(<<"hammer", h[k] - 1>>, "candlestick", "Hammer",
                    h[k] - 1, h[k] - 1, 750, "bullish")]

_detect_shooting_star(d) ==
    LET h == SortedSeq({i \in 1..Len(d) : IsShootingStar(d[i])})
    IN  [k \in 1..Len(h) |->
            Pattern(<<"shooting_star", h[k] - 1>>, "candlestick", "Shooting Star",
                    h[k] - 1, h[k] - 1, 750, "bearish")]

_detect_engulfing_bullish(d) ==
    LET h == SortedSeq({i \in 2..Len(d) : IsEngulfingBullish(d[i - 1], d[i])})
    IN  [k \in 1..Len(h) |->
            Pattern(<<"bullish_engulfing", h[k] - 1>>, "candlestick",
                    "Bullish Engulfing", h[k] - 2, h[k] - 1, 800, "bullish")]

_detect_engulfing_bearish(d) ==
    LET h == SortedSeq({i \in 2..Len(d) : IsEngulfingBearish(d[i - 1], d[i])})
    IN  [k \in 1..Len(h) |->
            Pattern(<<"bearish_engulfing", h[k] - 1>>, "candlestick",
                    "Bearish Engulfing", h[k] - 2, h[k] - 1, 800, "bearish")]

\* morning/evening star, three white soldiers, three black crows
_detect_placeholder(d) == << >>

\* the registry self.candlestick_patterns, in insertion order
_detect_candlestick_patterns(d) ==
    ConcatAll(<<_detect_doji(d), _detect_hammer(d), _detect_shooting_star(d),
                _detect_engulfing_bullish(d), _detect_engulfing_bearish(d),
                _detect_placeholder(d), _detect_placeholder(d),
                _detect_placeholder(d), _detect_placeholder(d)>>)

\* the registry self.chart_patterns: twelve detectors, each returning []
_detect_chart_patterns(d) == << >>

(***************************************************************************)
(* Peaks and valleys (scipy.signal.find_peaks with a prominence bound).    *)
(* Positions are 1-based here and 0-based in what the finders return.      *)
(***************************************************************************)
\* the last position of the run of equal values that starts at l
RECURSIVE PlateauEnd(_, _)
PlateauEnd(x, l) ==
    IF l < Len(x) /\ x[l + 1] = x[l] THEN PlateauEnd(x, l + 1) ELSE l

\* plateaus strictly above both neighbours, each at its midpoint
LocalMaxima(x) ==
    { (l + PlateauEnd(x, l)) \div 2 :
        l \in { q \in 2..(Len(x) - 1) :
                    /\ x[q - 1] < x[q]
                    /\ PlateauEnd(x, q) < Len(x)
                    /\ x[PlateauEnd(x, q) + 1] < x[q] } }

MinOver(x, lo, hi) == CHOOSE v \in {x[k] : k \in lo..hi} : \A k \in lo..hi : v <= x[k]

Prominence(x, p) ==
    LET higherLeft  == {j \in 1..(p - 1) : x[j] > x[p]}
        higherRight == {j \in (p + 1)..Len(x) : x[j] > x[p]}
        lb == IF higherLeft = {} THEN 1
              ELSE (CHOOSE j \in higherLeft : \A k \in higherLeft : k <= j) + 1
        rb == IF higherRight = {} THEN Len(x)
              ELSE (CHOOSE j \in higherRight : \A k \in higherRight : j <= k) - 1
    IN  x[p] - Max2(MinOver(x, lb, p), MinOver(x, p, rb))

\* find_peaks(x, prominence = frac * mean(col)), frac = 0.001:
\* prominence >= mean(col) / 1000  iff  1000 * n * prominence >= sum(col)
find_peaks(x, col) ==
    LET total == SumSeq(col)
    IN  SortedSeq({p - 1 : p \in {q \in LocalMaxima(x) :
                      1000 * Len(col) * Prominence(x, q) >= total}})

Negated(x) == AsSeq([k \in 1..Len(x) |-> -x[k]])

_find_significant_peaks(col) == find_peaks(col, col)

_find_significant_valleys(col) == find_peaks(Negated(col), col)

(***************************************************************************)
(* Level clustering (sklearn DBSCAN, min_samples = 2, on one dimension).   *)
(* With min_samples = 2 a point is a core point iff another point lies     *)
(* within eps of it, so a cluster is a connected component of at least two *)
(* points of the "within eps" graph and every other point is noise (-1).   *)
(* Labels number the clusters by their first point.                        *)
(***************************************************************************)
\* |a - b| <= eps * mean(levels), eps = 0.001, for two of n levels of sum total
Near(a, b, n, total) == 1000 * n * Abs(a - b) <= total

\* the positions within eps of each position (itself among them)
Neighbours(levels) ==
    LET total == SumSeq(levels)
    IN  AsSeq([i \in 1..Len(levels) |->
            {j \in 1..Len(levels) : Near(levels[i], levels[j], Len(levels), total)}])

RECURSIVE Reach(_, _)
Reach(nb, S) ==
    LET T == UNION {nb[i] : i \in S}
    IN  IF T = S THEN S ELSE Reach(nb, T)

\* fit_predict: the label of every position, -1 for noise
DBSCAN(levels) ==
    LET nb    == Neighbours(levels)
        comp  == AsSeq([i \in 1..Len(levels) |-> Reach(nb, {i})])
        least == AsSeq([i \in 1..Len(levels) |->
                    CHOOSE j \in comp[i] : \A k \in comp[i] : j <= k])
        first == {least[i] : i \in {j \in 1..Len(levels) : Cardinality(comp[j]) >= 2}}
    IN  AsSeq([i \in 1..Len(levels) |->
            IF Cardinality(comp[i]) < 2 THEN -1
            ELSE Cardinality({f \in first : f < least[i]})])

\* n^2 * variance of the points at the positions in c; the shift by the
\* first level leaves the variance unchanged
SqDev(levels, c) ==
    LET pos == SortedSeq(c)
        dev == AsSeq([k \in 1..Len(pos) |-> levels[pos[k]] - levels[1]])
        sq  == AsSeq([k \in 1..Len(pos) |-> dev[k] * dev[k]])
    IN  Len(pos) * SumSeq(sq) - SumSeq(dev) * SumSeq(dev)

\* one (level, strength, touches) per cluster: level = level_sum / touches,
\* strength = touches * std = sqrt(strength_sq)
ClusterLevel(levels, c) ==
    LET pos == SortedSeq(c)
    IN  [level_sum   |-> SumSeq([k \in 1..Len(pos) |-> levels[pos[k]]]),
         strength_sq |-> SqDev(levels, c),
         touches     |-> Cardinality(c)]

\* the loop without its "if cluster_id == -1: continue"
_cluster_levels_with_noise(levels) ==
    IF Len(levels) < 2 THEN << >>
    ELSE LET cluster_labels == DBSCAN(levels)
             ids == SortedSeq({cluster_labels[i] : i \in 1..Len(levels)})
             points(id) == {i \in 1..Len(levels) : cluster_labels[i] = id}
             kept == SelectSeq(ids, LAMBDA id : Cardinality(points(id)) >= 2)
         IN  AsSeq([k \in 1..Len(kept) |-> ClusterLevel(levels, points(kept[k]))])

\* the loop over set(cluster_labels), labels ascending
_cluster_levels(levels) ==
    IF Len(levels) < 2 THEN << >>
    ELSE LET cluster_labels == DBSCAN(levels)
             ids == SortedSeq({cluster_labels[i] : i \in 1..Len(levels)})
             points(id) == {i \in 1..Len(levels) : cluster_labels[i] = id}
             kept == SelectSeq(ids, LAMBDA id :
                        id # -1 /\ Cardinality(points(id)) >= 2)
         IN  AsSeq([k \in 1..Len(kept) |-> ClusterLevel(levels, points(kept[k]))])

(***************************************************************************)
(* Support and resistance.                                                 *)
(***************************************************************************)
Column(d, f) == AsSeq([k \in 1..Len(d) |-> d[k][f]])

\* data[col].iloc[idx].values, idx 0-based
Take(col, idx) == AsSeq([k \in 1..Len(idx) |-> col[idx[k] + 1]])

\* strength / 10 without the cap at 0.9
LevelConfidenceUncapped(strength_sq) ==
    IF strength_sq >= 81 THEN 100 * Isqrt(strength_sq) ELSE Isqrt(10000 * strength_sq)

\* min(0.9, strength / 10) in thousandths: strength = sqrt(strength_sq)
LevelConfidence(strength_sq) ==
    IF strength_sq >= 81 THEN 900 ELSE Isqrt(10000 * strength_sq)

LevelPattern(kind, name, signal, k, start, end, lv) ==
    [id |-> <<kind, k>>, type |-> "support_resistance", name |-> name,
     start_time |-> start, end_time |-> end,
     confidence |-> LevelConfidence(lv.strength_sq), signal |-> signal,
     level_sum |-> lv.level_sum, touches |-> lv.touches]

_detect_support_resistance(d) ==
    LET highs == _find_significant_peaks(Column(d, "high"))
        lows  == _find_significant_valleys(Column(d, "low"))
        resistance_levels ==
            IF Len(highs) > 2 THEN _cluster_levels(Take(Column(d, "high"), highs))
            ELSE << >>
        support_levels ==
            IF Len(lows) > 2 THEN _cluster_levels(Take(Column(d, "low"), lows))
            ELSE << >>
        nres == Len(resistance_levels)
    IN  [k \in 1..nres |->
            LevelPattern("resistance", "Resistance Level", "bearish", k - 1,
                         Max2(0, highs[1] - 10), Len(d) - 1, resistance_levels[k])]
        \o
        [k \in 1..Len(support_levels) |->
            LevelPattern("support", "Support Level", "bullish", nres + k - 1,
                         Max2(0, lows[1] - 10), Len(d) - 1, support_levels[k])]

(***************************************************************************)
(* Trends (scipy.stats.linregress of the closes against 0..n-1).           *)
(*   Sxx = n*sum(x^2) - sum(x)^2,  Sxy = n*sum(x*y) - sum(x)*sum(y),       *)
(*   Syy = n*sum(y^2) - sum(y)^2,  slope = Sxy / Sxx,                      *)
(*   r^2 = Sxy^2 / (Sxx * Syy), and r = 0 when Syy = 0.                    *)
(* The closes are shifted by the first one, which changes none of these.   *)
(***************************************************************************)
ShortWindow == 20

MediumWindow == 50

LastN(col, n) == SubSeq(col, Len(col) - n + 1, Len(col))

_calculate_trend(y) ==
    LET n   == Len(y)
        xs  == AsSeq([k \in 1..n |-> k - 1])
        ys  == AsSeq([k \in 1..n |-> y[k] - y[1]])
        sx  == SumSeq(xs)
        sy  == SumSeq(ys)
        Sxx == n * SumSeq([k \in 1..n |-> xs[k] * xs[k]]) - sx * sx
        Sxy == n * SumSeq([k \in 1..n |-> xs[k] * ys[k]]) - sx * sy
        Syy == n * SumSeq([k \in 1..n |-> ys[k] * ys[k]]) - sy * sy
    IN  [sign        |-> IF Sxy > 0 THEN 1 ELSE IF Sxy < 0 THEN -1 ELSE 0,
         \* |slope| > 0.0001
         significant |-> Abs(Sxy) > Sxx \div 10000,
         \* r^2 = Sxy^2 / (Sxx * Syy) in thousandths, rounded down
         r_squared   |-> IF Syy = 0 \/ Sxx = 0 THEN 0
                         ELSE LET a == MulDivMod(Abs(Sxy), Abs(Sxy), Sxx)
                                  q == MulDivMod(1000, a[1], Syy)
                                  t == MulDiv(1000, a[2], Sxx)
                              IN  q[1] + ((q[2] + t) \div Syy)]

TrendPattern(kind, label, k, window, n, t) ==
    Pattern(<<kind, k>>, "trends",
            IF t.sign > 0 THEN label \o " Uptrend" ELSE label \o " Downtrend",
            n - window, n - 1, Min2(900, t.r_squared),
            IF t.sign > 0 THEN "bullish" ELSE "bearish")

\* scipy.signal.argrelextrema(x, np.less, order = 5), mode = 'clip':
\* positions (0-based) strictly below their 5 neighbours on either side,
\* a neighbour beyond an end being the end itself
RelMinOrder == 5

argrelmin(x) ==
    SortedSeq({p - 1 : p \in {q \in 1..Len(x) :
        \A k \in 1..RelMinOrder :
            /\ x[q] < x[Max2(1, q - k)]
            /\ x[q] < x[Min2(Len(x), q + k)]}})

\* rsi_ok: the RSI series (ta.momentum.RSIIndicator) has at least two local
\* minima and is higher at the last price low than at the one before
_detect_trend_reversals(d, rsi_ok) ==
    LET recent_close == LastN(Column(d, "close"), Min2(MediumWindow, Len(d)))
        offset       == Len(d) - Len(recent_close)
        price_lows   == argrelmin(recent_close)
        last_low     == price_lows[Len(price_lows)]
        prev_low     == price_lows[Len(price_lows) - 1]
    IN  IF /\ Len(price_lows) >= 2
           /\ recent_close[last_low + 1] < recent_close[prev_low + 1]
           /\ rsi_ok
        THEN <<Pattern(<<"bullish_divergence", 0>>, "trends", "Bullish RSI Divergence",
                       offset + prev_low, offset + last_low, 700, "bullish")>>
        ELSE << >>

_detect_trends(d, rsi_ok) ==
    LET close_prices == Column(d, "close")
        n            == Len(close_prices)
        short_trend  == _calculate_trend(LastN(close_prices, ShortWindow))
        short  == IF n >= ShortWindow /\ short_trend.significant
                  THEN <<TrendPattern("trend_short", "Short-term", 0,
                                      ShortWindow, n, short_trend)>>
                  ELSE << >>
        medium_trend == _calculate_trend(LastN(close_prices, MediumWindow))
        medium == IF n >= MediumWindow /\ medium_trend.significant
                  THEN <<TrendPattern("trend_medium", "Medium-term", Len(short),
                                      MediumWindow, n, medium_trend)>>
                  ELSE << >>
    IN  short \o medium \o _detect_trend_reversals(d, rsi_ok)

(***************************************************************************)
(* detect_patterns.                                                        *)
(***************************************************************************)
\* an ascending stable sort read backwards: descending, but equal
\* confidences come out in the reverse of their order in the list
SortAscendingReversed(ps) ==
    LET keys == SortedSeq({ps[k].confidence : k \in 1..Len(ps)})
        asc  == ConcatAll([k \in 1..Len(keys) |->
                              SelectSeq(ps, LAMBDA q : q.confidence = keys[k])])
    IN  AsSeq([k \in 1..Len(asc) |-> asc[Len(asc) + 1 - k]])

\* list.sort(key = confidence, reverse = True): descending, and stable, so
\* the result is, for each confidence from the highest down, the patterns
\* of that confidence in their order in the list
SortByConfidence(ps) ==
    LET keys == SortedSeq({ps[k].confidence : k \in 1..Len(ps)})
        desc == [k \in 1..Len(keys) |-> keys[Len(keys) + 1 - k]]
    IN  ConcatAll([k \in 1..Len(desc) |->
                      SelectSeq(ps, LAMBDA q : q.confidence = desc[k])])

DefaultTypes == {"support_resistance", "trends", "candlestick", "technical"}

\* arg.is_none: pattern_types is None; arg.names: the names in the list
detect_patterns(d, arg, rsi_ok) ==
    LET types == IF arg.is_none THEN DefaultTypes ELSE arg.names
        sr_patterns == IF "support_resistance" \in types
                       THEN _detect_support_resistance(d) ELSE << >>
        trend_patterns == IF "trends" \in types
                          THEN _detect_trends(d, rsi_ok) ELSE << >>
        candlestick_patterns == IF "candlestick" \in types
                                THEN _detect_candlestick_patterns(d) ELSE << >>
        technical_patterns == IF "technical" \in types
                              THEN _detect_chart_patterns(d) ELSE << >>
    IN  SortByConfidence(sr_patterns \o trend_patterns \o candlestick_patterns
                         \o technical_patterns)

\* The columns a family reads of the frame: data['high'] and data['low'];
\* data['close']; the four prices of every candle, if there is one.  The
\* chart detectors read nothing.
ColumnsRead(family, d) ==
    IF family = "support_resistance" THEN {"high", "low"}
    ELSE IF family = "trends" THEN {"close"}
    ELSE IF family = "candlestick" /\ Len(d) > 0 THEN {"open", "high", "low", "close"}
    ELSE {}

\* a family that reads a column the frame lacks raises KeyError
FamilyRaises(family, d, missing) == missing \in ColumnsRead(family, d)

\* detect_patterns calls the families outside any try block: the first
\* requested family that raises ends the call, and no list is returned
DetectPatternsRaises(d, missing, arg) ==
    \E family \in (IF arg.is_none THEN DefaultTypes ELSE arg.names) :
        FamilyRaises(family, d, missing)

DetectPatternsCall(d, missing, arg, rsi_ok) ==
    IF DetectPatternsRaises(d, missing, arg)
    THEN [raises |-> TRUE, patterns |-> << >>]
    ELSE [raises |-> FALSE, patterns |-> detect_patterns(d, arg, rsi_ok)]

(***************************************************************************)
(* calculate_reliability.  A factor is carried in thousandths.             *)
(***************************************************************************)
\* a volume confirmation of 1.0, the full 20% boost
_check_volume_confirmation_full(d, pattern) == 1000

\* "return 0.1": the volume confirmation, in thousandths
_check_volume_confirmation(d, pattern) == 100

\* "return 1.0"
_analyze_market_context(d, pattern) == 1000

\* "return 1.0"
_check_pattern_completion(d, pattern) == 1000

\* base_score *= (1 + volume_confirmation * 0.2), in millionths
VolumeBoosted(base, confirmation) == base * (1000 + (confirmation * 2) \div 10)

\* the score of one pattern, in millionths: min(1.0, base_score)
ReliabilityOf(d, volume, pattern) ==
    LET base_score == pattern.confidence
        boosted  == IF volume
                    THEN VolumeBoosted(base_score, _check_volume_confirmation(d, pattern))
                    ELSE base_score * 1000
        in_context == (boosted * _analyze_market_context(d, pattern)) \div 1000
        completed  == (in_context * _check_pattern_completion(d, pattern)) \div 1000
    IN  Min2(1000000, completed)

PatternIds(patterns) == {patterns[k].id : k \in 1..Len(patterns)}

\* the last pattern of the list that carries the id (a later assignment to
\* reliability_scores[pattern_id] replaces an earlier one)
LastWithId(patterns, id) ==
    patterns[CHOOSE k \in 1..Len(patterns) :
                /\ patterns[k].id = id
                /\ \A j \in (k + 1)..Len(patterns) : patterns[j].id # id]

\* a scorer that writes the score back into the pattern it scored
calculate_reliability_in_place(d, volume, patterns) ==
    [scores   |-> [id \in PatternIds(patterns) |->
                      ReliabilityOf(d, volume, LastWithId(patterns, id))],
     patterns |-> AsSeq([k \in 1..Len(patterns) |->
                      [patterns[k] EXCEPT !.confidence =
                          ReliabilityOf(d, volume, patterns[k]) \div 1000]]),
     data     |-> d]

\* what the call returns (scores) and what it leaves in its arguments
calculate_reliability(d, volume, patterns) ==
    [scores   |-> [id \in PatternIds(patterns) |->
                      ReliabilityOf(d, volume, LastWithId(patterns, id))],
     patterns |-> patterns,
     data     |-> d]

(***************************************************************************)
(* The inputs the specifications draw from.                                *)
(***************************************************************************)
Candle(o, h, l, c) == [open |-> o, high |-> h, low |-> l, close |-> c]

Shifted(c, by) == Candle(c.open + by, c.high + by, c.low + by, c.close + by)

\* candle shapes, as offsets in ticks from the candle's level
Shapes ==
    { Candle(10, 20, 0, 10),    \* no body
      Candle(16, 20, 0, 20),    \* small body on a long lower shadow
      Candle(4, 20, 0, 0),      \* small body under a long upper shadow
      Candle(12, 14, 6, 8),     \* small falling body
      Candle(5, 20, 0, 15) }    \* large rising body

\* the price level of the first candle
Base == 10000

\* the second candle of a motif stands this much above the first, or level
Lift == 15

\* each candle's level moves by at most this much from the one before
MaxDrift == 1

\* series lengths: below and at the thresholds of the detectors
Lengths == {7, ShortWindow, MediumWindow}

\* two candles of a series may stand lower than their neighbours: none
\* (0), the second dip lower than the first (1), or higher (2)
Dips == 0..2

DipDepth(dip, k) ==
    IF dip = 0 THEN 0
    ELSE IF k = 9 THEN 40
    ELSE IF k = 16 THEN (IF dip = 1 THEN 50 ELSE 30)
    ELSE 0

\* the series of length n that repeats the candles a, b, with b lifted by
\* lift, on a level that moves by drift per candle, with the dips of dip
Series(a, b, lift, drift, dip, n) ==
    AsSeq([k \in 1..n |->
        Shifted(IF k % 2 = 1 THEN a ELSE Shifted(b, lift),
                Base + drift * (k - 1) - DipDepth(dip, k))])

SeriesSet ==
    { Series(a, b, lift, drift, dip, n) :
        a \in Shapes, b \in Shapes, lift \in {0, Lift},
        drift \in (-MaxDrift)..MaxDrift, dip \in Dips, n \in Lengths }

TypeArgs ==
    [is_none : {FALSE}, names : SUBSET Families] \cup {[is_none |-> TRUE, names |-> {}]}

RequestsTrends(arg) == arg.is_none \/ "trends" \in arg.names

NoScores == [id \in {} |-> 0]

(***************************************************************************)
(* The risk calculator (models/risk_calculator.py).                        *)
(*                                                                         *)
(* Numbers.  A position size and an entry price are integers.  An annual   *)
(* volatility is carried in hundredths (0.08 is 8), a correlation in       *)
(* tenths (0.7 is 7), a confidence level in hundredths (0.95 is 95), a     *)
(* normal quantile and a risk ratio in thousandths.  The simulated price   *)
(* moves by whole percents of the entry price, so the amounts of money     *)
(* derived from it (market value, exposure, VaR) are carried in            *)
(* hundredths; leverage, exposure over the 10000 account, is then the      *)
(* gross exposure read in millionths.                                      *)
(***************************************************************************)
monte_carlo_simulations == 10000

\* the days of a simulated year, in both VaR simulations and the ratios
TradingDays == 252

account_balance == 10000

default_correlations ==
    (<<"EURUSD", "GBPUSD">> :> 7) @@ (<<"EURUSD", "USDJPY">> :> -3)
    @@ (<<"EURUSD", "USDCHF">> :> -8) @@ (<<"EURUSD", "AUDUSD">> :> 6)
    @@ (<<"EURUSD", "USDCAD">> :> -4) @@ (<<"GBPUSD", "USDJPY">> :> -2)
    @@ (<<"GBPUSD", "USDCHF">> :> -6) @@ (<<"GBPUSD", "AUDUSD">> :> 8)
    @@ (<<"USDJPY", "USDCHF">> :> 4) @@ (<<"USDJPY", "AUDUSD">> :> -1)
    @@ (<<"USDCHF", "AUDUSD">> :> -5)

default_volatilities ==
    ("EURUSD" :> 8) @@ ("GBPUSD" :> 10) @@ ("USDJPY" :> 9) @@ ("USDCHF" :> 8)
    @@ ("AUDUSD" :> 12) @@ ("USDCAD" :> 9) @@ ("NZDUSD" :> 13)
    @@ ("EURJPY" :> 11) @@ ("GBPJPY" :> 14) @@ ("CHFJPY" :> 11)

\* self.default_volatilities.get(symbol, 0.10)
VolatilityOf(symbol) ==
    IF symbol \in DOMAIN default_volatilities THEN default_volatilities[symbol] ELSE 10

\* the lookup without its second, reversed attempt
_get_correlation_one_order(symbol1, symbol2) ==
    IF symbol1 = symbol2 THEN 10
    ELSE IF <<symbol1, symbol2>> \in DOMAIN default_correlations
         THEN default_correlations[<<symbol1, symbol2>>]
    ELSE 0

_get_correlation(symbol1, symbol2) ==
    IF symbol1 = symbol2 THEN 10
    ELSE IF <<symbol1, symbol2>> \in DOMAIN default_correlations
         THEN default_correlations[<<symbol1, symbol2>>]
    ELSE IF <<symbol2, symbol1>> \in DOMAIN default_correlations
         THEN default_correlations[<<symbol2, symbol1>>]
    ELSE 0

timeframe_map ==
    ("1d" :> 1) @@ ("5d" :> 5) @@ ("10d" :> 10) @@ ("1w" :> 7) @@ ("2w" :> 14)
    @@ ("1m" :> 22) @@ ("3m" :> 66) @@ ("6m" :> 132) @@ ("1y" :> 252)

\* the conversion were the key lowered before the lookup
_convert_timeframe_to_days_any_case(tf) ==
    LET lower == ("1D" :> "1d") @@ ("5D" :> "5d") @@ ("10D" :> "10d") @@ ("1W" :> "1w")
                 @@ ("2W" :> "2w") @@ ("1M" :> "1m") @@ ("3M" :> "3m") @@ ("6M" :> "6m")
                 @@ ("1Y" :> "1y")
        key == IF tf.value \in DOMAIN lower THEN lower[tf.value] ELSE tf.value
    IN  IF tf.kind # "str" THEN [raises |-> TRUE, days |-> 0]
        ELSE [raises |-> FALSE,
              days |-> IF key \in DOMAIN timeframe_map THEN timeframe_map[key] ELSE 1]

\* a timeframe argument is a string, or a value no dict can look up (a
\* list), on which timeframe_map.get raises
_convert_timeframe_to_days(tf) ==
    IF tf.kind # "str" THEN [raises |-> TRUE, days |-> 0]
    ELSE [raises |-> FALSE,
          days |-> IF tf.value \in DOMAIN timeframe_map THEN timeframe_map[tf.value] ELSE 1]

\* scipy.stats.norm.ppf on the confidence levels of the model, thousandths
norm_ppf == (5 :> -1645) @@ (50 :> 0) @@ (90 :> 1282) @@ (95 :> 1645) @@ (99 :> 2326)

\* a confidence argument is a number of the table above, or a value that is
\* no number (a string), on which the arithmetic of each VaR method raises
IsNumber(confidence) == confidence.kind = "num"

(***************************************************************************)
(* Positions.  A position is a dict with the keys symbol, position and     *)
(* entry_price; defect tells what is wrong with it, if anything: a key     *)
(* that is missing, a value of the wrong type, or no dict at all.          *)
(***************************************************************************)
Defects ==
    {"no_symbol", "no_position", "no_entry_price", "symbol_unhashable",
     "position_not_number", "entry_price_not_number", "not_a_dict"}

Position(symbol, size, entry_price, defect) ==
    [symbol |-> symbol, position |-> size, entry_price |-> entry_price, defect |-> defect]

\* abs(position) * entry_price
position_value(position) == Abs(position.position) * position.entry_price

\* a rational number
Ratio(num, den) == [num |-> num, den |-> den]

\* the sum of |corr| over the positions in another symbol, over len(portfolio)
_calculate_position_correlation_risk(symbol, pf) ==
    IF Len(pf) = 0 THEN Ratio(0, 1)
    ELSE Ratio(SumSeq(AsSeq([k \in 1..Len(pf) |->
                   IF pf[k].symbol # symbol
                   THEN Abs(_get_correlation(symbol, pf[k].symbol)) ELSE 0])),
               Len(pf))

\* entry_price * (1 + price_change), in hundredths; price_change is the one
\* random number drawn, in percent
_get_current_price(symbol, entry_price, price_change) == entry_price * (100 + price_change)

\* the analysis of one well-formed position.  position_var, market value
\* times annual volatility times norm.ppf(0.95), is left in units of
\* 1 / (10^7 * sqrt(252)); risk_contribution is that over len(portfolio)
AnalyzePosition(position, pf, price_change) ==
    LET current_price == _get_current_price(position.symbol, position.entry_price, price_change)
        market_value == Abs(position.position) * current_price
        position_var == market_value * VolatilityOf(position.symbol) * norm_ppf[95]
    IN  [symbol |-> position.symbol,
         position |-> position.position,
         entry_price |-> position.entry_price,
         current_price |-> current_price,
         market_value |-> market_value,
         unrealized_pnl |-> position.position * (current_price - 100 * position.entry_price),
         position_var |-> position_var,
         risk_contribution |-> Ratio(position_var, Len(pf)),
         correlation_risk |-> _calculate_position_correlation_risk(position.symbol, pf)]

\* whether the random price change is drawn before the defect raises
RaisesAfterDraw(defect) == defect \in {"position_not_number", "entry_price_not_number"}

\* the positions are analysed in order; the first defective one raises
_analyze_positions(pf, price_change) ==
    LET bad == {k \in 1..Len(pf) : pf[k].defect # "none"}
    IN  IF bad = {}
        THEN [raises |-> FALSE,
              value |-> AsSeq([k \in 1..Len(pf) |-> AnalyzePosition(pf[k], pf, price_change)]),
              draws |-> Len(pf)]
        ELSE LET first == CHOOSE k \in bad : \A j \in bad : k <= j
             IN  [raises |-> TRUE,
                  value |-> << >>,
                  draws |-> (first - 1) + (IF RaisesAfterDraw(pf[first].defect) THEN 1 ELSE 0)]

_calculate_portfolio_metrics(position_analysis) ==
    LET n == Len(position_analysis)
        total_long_exposure ==
            SumSeq(AsSeq([k \in 1..n |-> IF position_analysis[k].position > 0
                                          THEN position_analysis[k].market_value ELSE 0]))
        total_short_exposure ==
            SumSeq(AsSeq([k \in 1..n |-> IF position_analysis[k].position < 0
                                          THEN position_analysis[k].market_value ELSE 0]))
    IN  [net_exposure |-> total_long_exposure - total_short_exposure,
         gross_exposure |-> total_long_exposure + total_short_exposure,
         \* gross exposure (hundredths) / 10000, in millionths
         leverage |-> ((total_long_exposure + total_short_exposure) * 10000) \div account_balance,
         long_exposure |-> total_long_exposure,
         short_exposure |-> total_short_exposure]

TotalNotional(pf) == SumSeq(AsSeq([k \in 1..Len(pf) |-> position_value(pf[k])]))

\* The percentile of the simulated P&L is whatever the random source makes
\* it: pct, in hundredths.  It is 0 when every notional is 0, and the method
\* returns 0.0 when the confidence level is no number.
_calculate_historical_var(pf, timeframe_days, confidence, pct) ==
    IF ~IsNumber(confidence) THEN 0
    ELSE IF TotalNotional(pf) = 0 THEN 0
    ELSE Abs(pct)

_calculate_monte_carlo_var(pf, timeframe_days, confidence, pct) ==
    IF ~IsNumber(confidence) THEN 0
    ELSE IF TotalNotional(pf) = 0 THEN 0
    ELSE Abs(pct)

\* the sum of the position variances, times 10 * 100^2 * 252
PositionVariances(pf) ==
    SumSeq(AsSeq([k \in 1..Len(pf) |->
        10 * (position_value(pf[k]) * VolatilityOf(pf[k].symbol))
           * (position_value(pf[k]) * VolatilityOf(pf[k].symbol))]))

\* the sum of 2 * corr * vol1 * vol2 * value1 * value2 over every i, j with
\* i != j, on the same scale
correlation_adjustment(pf) ==
    SumSeq(AsSeq([i \in 1..Len(pf) |->
        SumSeq(AsSeq([j \in 1..Len(pf) |->
            IF i # j
            THEN 2 * _get_correlation(pf[i].symbol, pf[j].symbol)
                   * VolatilityOf(pf[i].symbol) * VolatilityOf(pf[j].symbol)
                   * position_value(pf[i]) * position_value(pf[j])
            ELSE 0]))]))

\* The parametric VaR is z / 1000 * sqrt(radicand / (10 * 100^2 * 252)):
\* radicand is max(0, portfolio_variance) times timeframe_days on the scale
\* above, z is norm.ppf(confidence_level).  The method returns 0.0 when the
\* confidence level is no number.
_calculate_parametric_var(pf, timeframe_days, confidence) ==
    IF ~IsNumber(confidence) THEN [radicand |-> 0, z |-> 0]
    ELSE [radicand |->
              Max2(0, PositionVariances(pf) + correlation_adjustment(pf)) * timeframe_days,
          z |-> norm_ppf[confidence.value]]

\* expected_shortfall is var * 1.3; the percentiles of the model are
\* multiples of 10, so the quotient is exact
\* the same with the historical VaR as the headline figure
_calculate_var_historical(pf, timeframe_days, confidence, random) ==
    LET historical_var == _calculate_historical_var(pf, timeframe_days, confidence, random.historical_percentile)
        parametric_var == _calculate_parametric_var(pf, timeframe_days, confidence)
        monte_carlo_var == _calculate_monte_carlo_var(pf, timeframe_days, confidence, random.monte_carlo_percentile)
    IN  [var |-> historical_var,
         expected_shortfall |-> (historical_var * 13) \div 10,
         historical_var |-> historical_var,
         parametric_var |-> parametric_var,
         monte_carlo_var |-> monte_carlo_var]

_calculate_var(pf, timeframe_days, confidence, random) ==
    LET historical_var == _calculate_historical_var(pf, timeframe_days, confidence, random.historical_percentile)
        parametric_var == _calculate_parametric_var(pf, timeframe_days, confidence)
        monte_carlo_var == _calculate_monte_carlo_var(pf, timeframe_days, confidence, random.monte_carlo_percentile)
    IN  [var |-> monte_carlo_var,
         expected_shortfall |-> (monte_carlo_var * 13) \div 10,
         historical_var |-> historical_var,
         parametric_var |-> parametric_var,
         monte_carlo_var |-> monte_carlo_var]

ZeroRatios ==
    [sharpe_ratio |-> 0, sortino_ratio |-> 0, calmar_ratio |-> 0,
     volatility_annual |-> 0, max_drawdown |-> 0]

\* The ratios of the simulated year are whatever the random source makes
\* them: ratios.  With every notional 0 the simulated returns are all 0,
\* the volatility is 0 and every ratio is 0.
_calculate_risk_ratios(pf, position_analysis, ratios) ==
    IF TotalNotional(pf) = 0 THEN ZeroRatios ELSE ratios

\* the same rules with the second leverage test made independent of the first
_generate_risk_recommendations_no_elif(portfolio_metrics, var_res, risk_metrics) ==
    LET leverage_rule ==
            (IF portfolio_metrics.leverage > 5000000
             THEN <<"Consider reducing leverage - current level is very high">>
             ELSE << >>)
            \o (IF portfolio_metrics.leverage > 3000000
                THEN <<"Monitor leverage levels - approaching high risk territory">>
                ELSE << >>)
        var_rule ==
            IF var_res.var > 10 * account_balance
            THEN <<"Daily VaR exceeds 10% of account - consider reducing position sizes">>
            ELSE IF var_res.var > 5 * account_balance
            THEN <<"Daily VaR is elevated - monitor risk closely">>
            ELSE << >>
        sharpe_rule ==
            IF risk_metrics.sharpe_ratio < 500
            THEN <<"Risk-adjusted returns are low - review trading strategy">>
            ELSE IF risk_metrics.sharpe_ratio > 2000
            THEN <<"Excellent risk-adjusted returns - maintain current strategy">>
            ELSE << >>
        drawdown_rule ==
            IF risk_metrics.max_drawdown > 20000
            THEN <<"Maximum drawdown is concerning - implement stricter stop losses">>
            ELSE << >>
        recommendations == leverage_rule \o var_rule \o sharpe_rule \o drawdown_rule
    IN  IF Len(recommendations) = 0
        THEN <<"Portfolio risk levels are within acceptable ranges">>
        ELSE recommendations

_generate_risk_recommendations(portfolio_metrics, var_res, risk_metrics) ==
    LET leverage_rule ==
            IF portfolio_metrics.leverage > 5000000
            THEN <<"Consider reducing leverage - current level is very high">>
            ELSE IF portfolio_metrics.leverage > 3000000
            THEN <<"Monitor leverage levels - approaching high risk territory">>
            ELSE << >>
        \* var / 10000 * 100 > 10, on a var in hundredths
        var_rule ==
            IF var_res.var > 10 * account_balance
            THEN <<"Daily VaR exceeds 10% of account - consider reducing position sizes">>
            ELSE IF var_res.var > 5 * account_balance
            THEN <<"Daily VaR is elevated - monitor risk closely">>
            ELSE << >>
        sharpe_rule ==
            IF risk_metrics.sharpe_ratio < 500
            THEN <<"Risk-adjusted returns are low - review trading strategy">>
            ELSE IF risk_metrics.sharpe_ratio > 2000
            THEN <<"Excellent risk-adjusted returns - maintain current strategy">>
            ELSE << >>
        drawdown_rule ==
            IF risk_metrics.max_drawdown > 20000
            THEN <<"Maximum drawdown is concerning - implement stricter stop losses">>
            ELSE << >>
        recommendations == leverage_rule \o var_rule \o sharpe_rule \o drawdown_rule
    IN  IF Len(recommendations) = 0
        THEN <<"Portfolio risk levels are within acceptable ranges">>
        ELSE recommendations

_get_empty_risk_result ==
    [net_exposure |-> 0, gross_exposure |-> 0, leverage |-> 0, var |-> 0,
     expected_shortfall |-> 0, max_drawdown |-> 0, sharpe_ratio |-> 0,
     sortino_ratio |-> 0, calmar_ratio |-> 0, volatility_annual |-> 0,
     positions |-> << >>, recommendations |-> << >>]

NoVarResults ==
    [var |-> 0, expected_shortfall |-> 0, historical_var |-> 0,
     parametric_var |-> [radicand |-> 0, z |-> 0], monte_carlo_var |-> 0]

\* What a run of the code yields: whether it raised, the value it returned
\* otherwise, the random numbers it drew, and the VaR estimates it made.
Outcome(raises, result, n_draws, var_res) ==
    [raises |-> raises, result |-> result, draws |-> n_draws, var_results |-> var_res]

\* the random numbers of the four simulations on n positions: one price
\* change each, a year of historical returns, the Monte Carlo trials, and a
\* year of returns for the ratios
DrawsOfSimulations(n) == (TradingDays + monte_carlo_simulations + TradingDays) * n

\* the steps of calculate_portfolio_risk on a portfolio that passed the
\* emptiness test
RiskSteps(pf, tf, confidence, random) ==
    LET timeframe_days == _convert_timeframe_to_days(tf)
        position_analysis == _analyze_positions(pf, random.price_change)
    IN  IF timeframe_days.raises THEN Outcome(TRUE, _get_empty_risk_result, 0, NoVarResults)
        ELSE IF position_analysis.raises
        THEN Outcome(TRUE, _get_empty_risk_result, position_analysis.draws, NoVarResults)
        ELSE LET portfolio_metrics == _calculate_portfolio_metrics(position_analysis.value)
                 var_res == _calculate_var(pf, timeframe_days.days, confidence, random)
                 risk_metrics == _calculate_risk_ratios(pf, position_analysis.value, random.ratios)
                 recommendations ==
                     _generate_risk_recommendations(portfolio_metrics, var_res, risk_metrics)
             IN  Outcome(FALSE,
                     [net_exposure |-> portfolio_metrics.net_exposure,
                      gross_exposure |-> portfolio_metrics.gross_exposure,
                      leverage |-> portfolio_metrics.leverage,
                      var |-> var_res.var,
                      expected_shortfall |-> var_res.expected_shortfall,
                      max_drawdown |-> risk_metrics.max_drawdown,
                      sharpe_ratio |-> risk_metrics.sharpe_ratio,
                      sortino_ratio |-> risk_metrics.sortino_ratio,
                      calmar_ratio |-> risk_metrics.calmar_ratio,
                      volatility_annual |-> risk_metrics.volatility_annual,
                      positions |-> position_analysis.value,
                      recommendations |-> recommendations],
                     position_analysis.draws + DrawsOfSimulations(Len(pf)),
                     var_res)

\* the try block without its emptiness test
RiskTryBlockNoEmptyTest(pf, tf, confidence, random) == RiskSteps(pf, tf, confidence, random)

\* the try block of calculate_portfolio_risk
RiskTryBlock(pf, tf, confidence, random) ==
    IF Len(pf) = 0 THEN Outcome(FALSE, _get_empty_risk_result, 0, NoVarResults)
    ELSE RiskSteps(pf, tf, confidence, random)

\* calculate_portfolio_risk without its except clause
calculate_portfolio_risk_unguarded(pf, tf, confidence, random) ==
    RiskTryBlock(pf, tf, confidence, random)

calculate_portfolio_risk(pf, tf, confidence, random) ==
    LET run == RiskTryBlock(pf, tf, confidence, random)
    IN  IF run.raises
        THEN Outcome(FALSE, _get_empty_risk_result, run.draws, run.var_results)
        ELSE run

(***************************************************************************)
(* The inputs of the risk calculator.                                      *)
(***************************************************************************)
\* position sizes are -1 (short), 0 and 1 .. MaxSize
MaxSize == 1

\* entry prices
EntryPrices == {1, 3}

\* at most this many positions in a portfolio
MaxPositions == 2

\* two symbols of the tables and one unknown to them
RiskSymbols == {"EURUSD", "GBPUSD", "XAUUSD"}

Positions ==
    { Position(s, q, p, "none") : s \in RiskSymbols, q \in (-1)..MaxSize, p \in EntryPrices }
    \cup { Position("EURUSD", 1, 1, d) : d \in Defects }

Portfolios == UNION {[1..n -> Positions] : n \in 0..MaxPositions}

Timeframes ==
    {[kind |-> "str", value |-> v] : v \in {"1m"}}
    \cup {[kind |-> "list", value |-> ""]}

ConfidenceLevels ==
    {[kind |-> "num", value |-> v] : v \in {50, 95}} \cup {[kind |-> "str", value |-> 0]}

\* what the random source may deliver during one call: the price change in
\* percent, the two P&L percentiles in hundredths, the ratios of the year
RandomOutcomes ==
    { [price_change |-> 1, historical_percentile |-> -50000,
       monte_carlo_percentile |-> -120000,
       ratios |-> [sharpe_ratio |-> -300, sortino_ratio |-> -400, calmar_ratio |-> -200,
                   volatility_annual |-> 150, max_drawdown |-> 25000]],
      [price_change |-> -1, historical_percentile |-> -50000,
       monte_carlo_percentile |-> -60000,
       ratios |-> [sharpe_ratio |-> 2500, sortino_ratio |-> 3000, calmar_ratio |-> 4000,
                   volatility_annual |-> 80, max_drawdown |-> 5000]],
      [price_change |-> 0, historical_percentile |-> 20,
       monte_carlo_percentile |-> -10,
       ratios |-> [sharpe_ratio |-> 1000, sortino_ratio |-> 1200, calmar_ratio |-> 900,
                   volatility_annual |-> 100, max_drawdown |-> 10000]] }

NoRandom ==
    [price_change |-> 0, historical_percentile |-> 0, monte_carlo_percentile |-> 0,
     ratios |-> ZeroRatios]

(***************************************************************************)
(* Scenario analysis.                                                      *)
(*                                                                         *)
(* Numbers.  A probability is carried in hundredths (0.05 is 5).  The      *)
(* losses of market_crash, trend_reversal and correlation_breakdown are    *)
(* carried in hundredths of the currency.  The losses of high_volatility   *)
(* are multiples of value * volatility, left in units of                   *)
(* 2.5 * 1.65 * sqrt(22 / 252) / 200.                                      *)
(***************************************************************************)
\* the zeroed structure without its list of positions
_get_empty_scenario_result_no_list ==
    [probability |-> 0, expected_loss |-> 0, worst_case_loss |-> 0, recovery_time |-> 0]

_get_empty_scenario_result ==
    [probability |-> 0, expected_loss |-> 0, worst_case_loss |-> 0,
     recovery_time |-> 0, affected_positions |-> << >>]

\* what a try block yields: it raised, or it returned result
Raised == [raises |-> TRUE, result |-> _get_empty_scenario_result]

Returned(result) == [raises |-> FALSE, result |-> result]

\* the except clause of each scenario: a raise becomes the zeroed result
ZeroedOnRaise(run) == IF run.raises THEN Returned(_get_empty_scenario_result) ELSE run

\* the first position of pf whose defect is in the set raising, or 0
FirstRaising(pf, raising) ==
    LET bad == {k \in 1..Len(pf) : pf[k].defect \in raising}
    IN  IF bad = {} THEN 0 ELSE CHOOSE k \in bad : \A j \in bad : k <= j

\* the elements of seq at the positions where keep is true, in order
RECURSIVE SelectKept(_, _)
SelectKept(seq, keep) ==
    IF seq = << >> THEN << >>
    ELSE (IF Head(keep) THEN <<Head(seq)>> ELSE << >>) \o SelectKept(Tail(seq), Tail(keep))

\* a crash in which a short position loses as a long one does
CrashLossEitherSide(position) == 40 * position_value(position)

\* the expected loss of one position in a crash of 40%: a long position
\* loses, any other gains
CrashLoss(position) ==
    IF position.position > 0 THEN 40 * position_value(position)
    ELSE -40 * position_value(position)

\* the try block of _scenario_market_crash.  It reads the three keys and
\* multiplies by a float: every defect raises but a symbol that cannot be
\* hashed, which is only copied
MarketCrashBlock(pf) ==
    IF FirstRaising(pf, Defects \ {"symbol_unhashable"}) # 0 THEN Raised
    ELSE LET losses == AsSeq([k \in 1..Len(pf) |-> CrashLoss(pf[k])])
             entries == AsSeq([k \in 1..Len(pf) |->
                            [symbol |-> pf[k].symbol, expected_loss |-> losses[k],
                             loss_percentage |-> 40]])
         IN  Returned(
                 [probability |-> 5,
                  expected_loss |-> SumSeq(losses),
                  \* the sum of expected_loss * 1.5
                  worst_case_loss |->
                      SumSeq(AsSeq([k \in 1..Len(pf) |-> (losses[k] * 3) \div 2])),
                  recovery_time |-> 180,
                  affected_positions |->
                      SelectKept(entries, AsSeq([k \in 1..Len(pf) |-> losses[k] > 0]))])

_scenario_market_crash(pf) == ZeroedOnRaise(MarketCrashBlock(pf))

\* the try block of _scenario_high_volatility.  It looks the symbol up in
\* the volatility table: every defect raises
HighVolatilityBlock(pf) ==
    IF FirstRaising(pf, Defects) # 0 THEN Raised
    ELSE LET monthly_var == AsSeq([k \in 1..Len(pf) |->
                                2 * position_value(pf[k]) * VolatilityOf(pf[k].symbol)])
         IN  Returned(
                 [probability |-> 15,
                  expected_loss |-> SumSeq(monthly_var),
                  \* the sum of monthly_var * 1.5
                  worst_case_loss |->
                      SumSeq(AsSeq([k \in 1..Len(pf) |-> (monthly_var[k] * 3) \div 2])),
                  recovery_time |-> 60,
                  affected_positions |->
                      AsSeq([k \in 1..Len(pf) |->
                          [symbol |-> pf[k].symbol, additional_risk |-> monthly_var[k],
                           volatility_increase |-> "150%"]])])

_scenario_high_volatility(pf) == ZeroedOnRaise(HighVolatilityBlock(pf))

\* the try block of _scenario_trend_reversal
TrendReversalBlock(pf) ==
    IF FirstRaising(pf, Defects \ {"symbol_unhashable"}) # 0 THEN Raised
    ELSE LET losses == AsSeq([k \in 1..Len(pf) |-> 20 * position_value(pf[k])])
         IN  Returned(
                 [probability |-> 25,
                  expected_loss |-> SumSeq(losses),
                  \* the sum of expected_loss * 1.3
                  worst_case_loss |->
                      SumSeq(AsSeq([k \in 1..Len(pf) |-> (losses[k] * 13) \div 10])),
                  recovery_time |-> 90,
                  affected_positions |->
                      AsSeq([k \in 1..Len(pf) |->
                          [symbol |-> pf[k].symbol, expected_loss |-> losses[k],
                           reversal_magnitude |-> "20%"]])])

_scenario_trend_reversal(pf) == ZeroedOnRaise(TrendReversalBlock(pf))

RECURSIVE Gcd(_, _)
Gcd(a, b) == IF b = 0 THEN a ELSE Gcd(b, a % b)

RECURSIVE GcdSeq(_)
GcdSeq(s) == IF s = << >> THEN 0 ELSE Gcd(Head(s), GcdSeq(Tail(s)))

\* The portfolio volatility is sqrt(radicand / 10) / (100 * total): the
\* weights value / total are those of the values divided by their greatest
\* common divisor, total is the sum of the divided values, and radicand is
\* max(0, portfolio_variance) times 10 * 100^2 * total^2.  An empty
\* portfolio gives 0.0, and so does every failure: a defective position, or
\* a total value of 0, by which the weights are divided.
_calculate_portfolio_volatility(pf, use_correlations) ==
    IF Len(pf) = 0 THEN [radicand |-> 0, total |-> 1]
    ELSE IF FirstRaising(pf, Defects) # 0 THEN [radicand |-> 0, total |-> 1]
    ELSE IF TotalNotional(pf) = 0 THEN [radicand |-> 0, total |-> 1]
    ELSE LET values == AsSeq([k \in 1..Len(pf) |-> position_value(pf[k])])
             g == GcdSeq(values)
             w == AsSeq([k \in 1..Len(pf) |-> values[k] \div g])
             vol == AsSeq([k \in 1..Len(pf) |-> VolatilityOf(pf[k].symbol)])
             variances == SumSeq(AsSeq([k \in 1..Len(pf) |->
                              10 * (w[k] * vol[k]) * (w[k] * vol[k])]))
             correlation_terms ==
                 IF use_correlations /\ Len(pf) > 1
                 THEN SumSeq(AsSeq([i \in 1..Len(pf) |->
                          SumSeq(AsSeq([j \in 1..Len(pf) |->
                              IF i # j
                              THEN w[i] * w[j] * vol[i] * vol[j]
                                     * _get_correlation(pf[i].symbol, pf[j].symbol)
                              ELSE 0]))]))
                 ELSE 0
         IN  [radicand |-> Max2(0, variances + correlation_terms), total |-> SumSeq(w)]

\* no_diversification_vol - current_portfolio_vol, in units of
\* 1 / (10000 * total): each volatility is sqrt(1000 * radicand) in these
\* units, rounded down, so the sign of the difference is kept
DiversificationLoss(no_diversification_vol, current_portfolio_vol) ==
    Isqrt(1000 * no_diversification_vol.radicand) - Isqrt(1000 * current_portfolio_vol.radicand)

\* the try block of _scenario_correlation_breakdown.  It only reads the
\* symbol of each position itself: a position without one, or that is no
\* dict, raises; the failures of _calculate_portfolio_volatility are caught
\* there and yield 0.0
CorrelationBreakdownBlock(pf) ==
    IF FirstRaising(pf, {"no_symbol", "not_a_dict"}) # 0 THEN Raised
    ELSE LET current_portfolio_vol == _calculate_portfolio_volatility(pf, TRUE)
             no_diversification_vol == _calculate_portfolio_volatility(pf, FALSE)
             diversification_loss ==
                 DiversificationLoss(no_diversification_vol, current_portfolio_vol)
             \* account_value * diversification_loss * 1.65, in hundredths
             expected_loss == (165 * diversification_loss) \div no_diversification_vol.total
         IN  Returned(
                 [probability |-> 10,
                  expected_loss |-> expected_loss,
                  worst_case_loss |-> expected_loss * 2,
                  recovery_time |-> 120,
                  affected_positions |->
                      AsSeq([k \in 1..Len(pf) |->
                          [symbol |-> pf[k].symbol, correlation_impact |-> "High",
                           diversification_loss |-> diversification_loss]])])

_scenario_correlation_breakdown(pf) == ZeroedOnRaise(CorrelationBreakdownBlock(pf))

KnownScenarios == {"market_crash", "high_volatility", "trend_reversal", "correlation_breakdown"}

\* the branch of run_scenario_analysis for a known name
ScenarioCall(scenario_name, pf) ==
    IF scenario_name = "market_crash" THEN _scenario_market_crash(pf)
    ELSE IF scenario_name = "high_volatility" THEN _scenario_high_volatility(pf)
    ELSE IF scenario_name = "trend_reversal" THEN _scenario_trend_reversal(pf)
    ELSE _scenario_correlation_breakdown(pf)

NoScenarioResults == [name \in {} |-> 0]

\* The names are taken in order: an unknown name is skipped, a name that
\* comes twice is computed twice and keeps the last result, and a call that
\* raises ends the loop.
RECURSIVE ScenarioLoop(_, _, _)
ScenarioLoop(pf, names, results) ==
    IF names = << >> THEN [raises |-> FALSE, results |-> results]
    ELSE IF Head(names) \notin KnownScenarios THEN ScenarioLoop(pf, Tail(names), results)
    ELSE LET call == ScenarioCall(Head(names), pf)
         IN  IF call.raises THEN [raises |-> TRUE, results |-> results]
             ELSE ScenarioLoop(pf, Tail(names),
                      [n \in DOMAIN results \cup {Head(names)} |->
                          IF n = Head(names) THEN call.result ELSE results[n]])

\* the whole loop is in a try whose except returns {}
run_scenario_analysis(pf, names) ==
    LET run == ScenarioLoop(pf, names, NoScenarioResults)
    IN  IF run.raises THEN [raises |-> FALSE, results |-> NoScenarioResults] ELSE run

(***************************************************************************)
(* _generate_correlated_returns.  A standard normal draw is an integer; an *)
(* entry of the Cholesky factor is in thousandths, rounded down; a         *)
(* returned component is in units of 1/(100000 * sqrt(252)).  The vector   *)
(* of the outer except clause is made of fresh draws of N(0, 0.01) and is  *)
(* in units of 0.01.                                                       *)
(***************************************************************************)
\* position['symbol'] raises (KeyError, TypeError)
SymbolReadRaises(position) == position.defect \in {"no_symbol", "not_a_dict"}

\* the symbol is a list: hashing it raises, comparing it does not
SymbolUnhashable(position) == position.defect = "symbol_unhashable"

\* _get_correlation(portfolio[i]['symbol'], portfolio[j]['symbol']) raises:
\* equal symbols return before any lookup, unequal ones are hashed
PairLookupRaises(p1, p2) ==
    \/ SymbolReadRaises(p1)
    \/ SymbolReadRaises(p2)
    \/ /\ SymbolUnhashable(p1) \/ SymbolUnhashable(p2)
       /\ ~(SymbolUnhashable(p1) /\ SymbolUnhashable(p2) /\ p1.symbol = p2.symbol)

\* the loop over the pairs i < j raises
CorrelationMatrixRaises(pf) ==
    \E i \in 1..Len(pf) : \E j \in (i + 1)..Len(pf) : PairLookupRaises(pf[i], pf[j])

\* np.eye(n), then the entries (i, j) and (j, i) of every pair i < j are
\* set to the correlation looked up for (symbol i, symbol j); tenths
CorrelationMatrix(pf) ==
    AsSeq([i \in 1..Len(pf) |-> AsSeq([j \in 1..Len(pf) |->
        IF i = j THEN 10
        ELSE IF i < j THEN _get_correlation(pf[i].symbol, pf[j].symbol)
        ELSE _get_correlation(pf[j].symbol, pf[i].symbol)])])

RemoveAt(s, k) == SubSeq(s, 1, k - 1) \o SubSeq(s, k + 1, Len(s))

Iota(n) == AsSeq([k \in 1..n |-> k])

\* the determinant of the rows and columns listed, by the first row
RECURSIVE Det(_, _, _)
Det(matrix, rows, cols) ==
    IF rows = << >> THEN 1
    ELSE SumSeq(AsSeq([c \in 1..Len(cols) |->
             (IF c % 2 = 1 THEN 1 ELSE -1) * matrix[Head(rows)][cols[c]]
                 * Det(matrix, Tail(rows), RemoveAt(cols, c))]))

LeadingMinor(matrix, k) == Det(matrix, Iota(k), Iota(k))

\* the first pivot of the factorization that is not positive in exact
\* arithmetic: pivot j is minor j over minor j - 1; 0 if every pivot is
FirstBadPivot(matrix) ==
    IF \A k \in 1..Len(matrix) : LeadingMinor(matrix, k) > 0 THEN 0
    ELSE CHOOSE j \in 1..Len(matrix) :
             /\ LeadingMinor(matrix, j) <= 0
             /\ \A k \in 1..(j - 1) : LeadingMinor(matrix, k) > 0

\* the lower-triangular factor, row by row; a pivot that is zero in exact
\* arithmetic gives a zero on the diagonal
CholeskyFactor(matrix) ==
    LET n == Len(matrix)
        L[i \in 1..n, j \in 1..n] ==
            IF j > i THEN 0
            ELSE LET s == SumSeq(AsSeq([k \in 1..(j - 1) |-> L[i, k] * L[j, k]]))
                 IN  IF i = j
                     THEN IF LeadingMinor(matrix, j) <= 0 THEN 0
                          ELSE Isqrt(Max2(0, 100000 * matrix[i][i] - s))
                     ELSE IF L[j, j] = 0 THEN 0
                          ELSE (100000 * matrix[i][j] - s) \div L[j, j]
    IN  AsSeq([i \in 1..n |-> AsSeq([j \in 1..n |-> L[i, j]])])

\* The pivot that is zero in exact arithmetic is computed by the library as
\* 1 - sum of squares in floating point.  With squares of 0 and 1 only the
\* result is exactly 0; otherwise it is a rounding error of either sign.
\* (With at most three positions such a pivot is the last one.)
RoundingDecides(matrix) ==
    LET j == FirstBadPivot(matrix)
    IN  /\ j # 0
        /\ LeadingMinor(matrix, j) = 0
        /\ \E k \in 1..(j - 1) : CholeskyFactor(matrix)[j][k] \notin {-1000, 0, 1000}

CholeskyNeverFails(matrix, rounds_up) == TRUE

\* np.linalg.cholesky returns (it raises LinAlgError on a pivot <= 0)
CholeskySucceeds(matrix, rounds_up) ==
    \/ FirstBadPivot(matrix) = 0
    \/ RoundingDecides(matrix) /\ FirstBadPivot(matrix) = Len(matrix) /\ rounds_up

\* chol_matrix @ independent_returns; thousandths
MatVec(matrix, vector) ==
    AsSeq([i \in 1..Len(matrix) |->
        SumSeq(AsSeq([j \in 1..Len(vector) |-> matrix[i][j] * vector[j]]))])

\* the scaling loop raises: position['symbol'], or .get on a list
ScalingRaises(pf) ==
    \E i \in 1..Len(pf) : SymbolReadRaises(pf[i]) \/ SymbolUnhashable(pf[i])

\* the body of the try: the matrix, the draws, the factorization with its
\* own except clause, the scaling by volatility (/ sqrt(252) is in the unit)
CorrelatedReturnsBlock(pf, normal, rounds_up) ==
    IF CorrelationMatrixRaises(pf)
    THEN [raises |-> TRUE, path |-> "none", matrix |-> << >>, values |-> << >>, draws |-> 0]
    ELSE LET correlation_matrix_ == CorrelationMatrix(pf)
             succeeds == CholeskySucceeds(correlation_matrix_, rounds_up)
             correlated_returns_ ==
                 IF succeeds THEN MatVec(CholeskyFactor(correlation_matrix_), normal)
                 ELSE AsSeq([i \in 1..Len(pf) |-> 1000 * normal[i]])
         IN  IF ScalingRaises(pf)
             THEN [raises |-> TRUE, path |-> "none", matrix |-> correlation_matrix_,
                   values |-> << >>, draws |-> Len(pf)]
             ELSE [raises |-> FALSE,
                   path |-> IF succeeds THEN "cholesky" ELSE "independent",
                   matrix |-> correlation_matrix_,
                   values |-> AsSeq([i \in 1..Len(pf) |->
                                 correlated_returns_[i] * VolatilityOf(pf[i].symbol)]),
                   draws |-> Len(pf)]

\* except Exception: np.random.normal(0, 0.01, len(portfolio))
_generate_correlated_returns(pf, normal, fallback, rounds_up) ==
    LET run == CorrelatedReturnsBlock(pf, normal, rounds_up)
    IN  IF run.raises
        THEN [raises |-> FALSE, path |-> "fallback", matrix |-> run.matrix,
              values |-> fallback, draws |-> run.draws + Len(pf)]
        ELSE run

NoReturns == [path |-> "none", values |-> << >>]

(***************************************************************************)
(* One trial of each simulation.  The P&L of a Monte Carlo trial is in     *)
(* units of sqrt(timeframe_days / 252) / 100000, that of a historical      *)
(* trial in units of sqrt(timeframe_days / 252) / 100: the scaling by      *)
(* sqrt(timeframe_days) is in the unit.                                    *)
(***************************************************************************)
\* a trial that does not adjust for the direction of the position
MonteCarloTrialUnsigned(pf, normal, fallback, rounds_up) ==
    LET random_returns == _generate_correlated_returns(pf, normal, fallback, rounds_up).values
    IN  SumSeq(AsSeq([i \in 1..Len(pf) |-> position_value(pf[i]) * random_returns[i]]))

\* the body of the loop over self.monte_carlo_simulations
MonteCarloTrial(pf, normal, fallback, rounds_up) ==
    LET random_returns == _generate_correlated_returns(pf, normal, fallback, rounds_up).values
    IN  SumSeq(AsSeq([i \in 1..Len(pf) |->
            LET position_pnl == position_value(pf[i]) * random_returns[i]
            IN  IF pf[i].position < 0 THEN -position_pnl ELSE position_pnl]))

\* the body of the loop over the 252 days: np.random.normal(0, daily_vol) is
\* daily_vol times a standard normal draw, one draw for each position
HistoricalTrial(pf, normal) ==
    SumSeq(AsSeq([i \in 1..Len(pf) |->
        position_value(pf[i]) * (VolatilityOf(pf[i].symbol) * normal[i])]))

\* no call of _generate_correlated_returns is in progress
NoReturnsRequest ==
    /\ independent_returns = << >>
    /\ fallback_returns = << >>
    /\ rounding_up = FALSE
    /\ correlation_matrix = << >>
    /\ correlated_returns = NoReturns

\* no scenario request is in progress
NoScenarioRequest ==
    /\ scenarios = << >>
    /\ scenario_results = NoScenarioResults

(***************************************************************************)
(* The state of the two model instances that outlives a request, and the   *)
(* accesses each operation makes to it.  A request is a thread of the web  *)
(* server; its accesses interleave with those of the other requests.       *)
(***************************************************************************)
Models == {"pattern_detector", "risk_calculator"}

\* the operations of the claim, and the status endpoint
ModelOperations ==
    {"detect_patterns", "calculate_reliability", "calculate_portfolio_risk",
     "run_scenario_analysis", "retrain_pattern_detector", "retrain_risk_calculator"}

Operations == ModelOperations \cup {"model_status"}

Access(kind, model, field) == [kind |-> kind, model |-> model, field |-> field]

\* model_status reads four attributes of every loaded model
StatusReads(model) ==
    <<Access("read", model, "last_trained"), Access("read", model, "version"),
      Access("read", model, "last_accuracy"), Access("read", model, "training_samples")>>

\* the attributes of self an operation reads or writes, in order
Accesses(op) ==
    IF op = "detect_patterns"
    THEN <<Access("read", "pattern_detector", "candlestick_patterns"),
           Access("read", "pattern_detector", "chart_patterns")>>
    ELSE IF op = "calculate_reliability" THEN << >>
    ELSE IF op = "calculate_portfolio_risk"
    THEN <<Access("read", "risk_calculator", "default_volatilities"),
           Access("read", "risk_calculator", "default_correlations"),
           Access("read", "risk_calculator", "monte_carlo_simulations"),
           Access("read", "risk_calculator", "risk_free_rate")>>
    ELSE IF op = "run_scenario_analysis"
    THEN <<Access("read", "risk_calculator", "default_volatilities"),
           Access("read", "risk_calculator", "default_correlations")>>
    ELSE IF op = "retrain_pattern_detector"
    THEN <<Access("write", "pattern_detector", "last_trained"),
           Access("read", "pattern_detector", "version")>>
    ELSE IF op = "retrain_risk_calculator"
    THEN <<Access("update", "risk_calculator", "default_tables"),
           Access("write", "risk_calculator", "last_trained"),
           Access("read", "risk_calculator", "version")>>
    ELSE StatusReads("pattern_detector") \o StatusReads("risk_calculator")

\* an estimate put in the place of an entry of the table
_update_volatilities_estimating(table, training_data) ==
    [symbol \in DOMAIN table |-> IF symbol = "EURUSD" THEN table[symbol] + 1 ELSE table[symbol]]

\* pass
_update_correlations(table, training_data) == table

\* pass
_update_volatilities(table, training_data) == table

NoRequest == [op |-> "none", at |-> 0]

\* no request on the shared instances has been made
NoSharedRequests ==
    /\ requests = << >>
    /\ last_trained = [model \in Models |-> 0]
    /\ volatility_table = default_volatilities
    /\ correlation_table = default_correlations
    /\ access_log = {}
    /\ now = 0

\* no call of _generate_risk_recommendations alone is in progress
NoRecommendationRequest ==
    /\ metrics = [leverage |-> 0, var |-> 0, sharpe_ratio |-> 0, max_drawdown |-> 0]
    /\ advice = << >>

\* no call of _convert_timeframe_to_days alone is in progress
NoConversionRequest == days_result = [raises |-> FALSE, days |-> 0]

\* no simulation trial alone is in progress
NoTrialRequest == trial_pnl = [method |-> "none", pnl |-> 0]

\* the state of the MetaTrader5 module before any call, and after shutdown
Disconnected == [initialized |-> FALSE, account |-> 0]

\* the broker connector is not running
NoBroker ==
    /\ initialized = FALSE
    /\ connection_config = [login |-> 0, password |-> "", server |-> ""]
    /\ terminal = Disconnected
    /\ last_attempt = "none"
    /\ response = [endpoint |-> "none", status |-> 0]

\* the names of the model cache (app.py, models)
ModelNames == {"price_predictor", "pattern_detector", "sentiment_analyzer",
               "risk_calculator"}

\* at most this many request handler threads of the analytics service
MaxHandlers == 2

Handlers == 1..MaxHandlers

\* a handler thread between two requests
Waiting == [at |-> "idle", name |-> "none", instance |-> 0]

\* the analytics service is not running: the cache as the module creates it,
\* every slot None (0; an instance is a positive number)
NoCache ==
    /\ models = [name \in ModelNames |-> 0]
    /\ handlers = [t \in Handlers |-> Waiting]
    /\ constructions = [name \in ModelNames |-> 0]

NoRestRequest ==
    /\ NoConversionRequest
    /\ NoTrialRequest
    /\ NoBroker
    /\ NoCache

NoAuxRequest ==
    /\ NoScenarioRequest
    /\ NoReturnsRequest
    /\ NoRecommendationRequest
    /\ NoSharedRequests
    /\ NoRestRequest

\* no risk request is in progress
NoRiskRequest ==
    /\ portfolio = << >>
    /\ timeframe = [kind |-> "str", value |-> "1d"]
    /\ confidence_level = [kind |-> "num", value |-> 95]
    /\ rng = NoRandom
    /\ draws = 0
    /\ var_results = NoVarResults
    /\ risk_result = _get_empty_risk_result
    /\ raised = FALSE

\* no pattern request is in progress
NoPatternRequest ==
    /\ data = << >>
    /\ has_volume = TRUE
    /\ pattern_types = [is_none |-> TRUE, names |-> {}]
    /\ rsi_higher_low = FALSE
    /\ missing_column = "none"
    /\ detect_raised = FALSE
    /\ all_patterns = << >>
    /\ patterns_arg = << >>
    /\ reliability_scores = NoScores
    /\ levels_arg = << >>
    /\ clustered_levels = << >>

(***************************************************************************)
(* calculate_portfolio_risk on any short portfolio.                        *)
(***************************************************************************)
InitRisk ==
    /\ pc = "risk_request"
    /\ portfolio \in Portfolios
    /\ timeframe \in Timeframes
    /\ confidence_level \in ConfidenceLevels
    /\ rng \in RandomOutcomes
    /\ draws = 0
    /\ var_results = NoVarResults
    /\ risk_result = _get_empty_risk_result
    /\ raised = FALSE
    /\ NoPatternRequest
    /\ NoAuxRequest

CalculatePortfolioRisk ==
    /\ pc = "risk_request"
    /\ LET run == calculate_portfolio_risk(portfolio, timeframe, confidence_level, rng)
       IN  /\ raised' = run.raises
           /\ risk_result' = run.result
           /\ draws' = draws + run.draws
           /\ var_results' = run.var_results
    /\ pc' = "risk_done"
    /\ UNCHANGED <<portfolio, timeframe, confidence_level, rng>>
    /\ UNCHANGED patternVars
    /\ UNCHANGED auxVars

SpecRisk == InitRisk /\ [][CalculatePortfolioRisk]_vars

(***************************************************************************)
(* run_scenario_analysis on any short portfolio and list of names.         *)
(***************************************************************************)
\* the notional of the reference position of the crash scenario
ReferenceNotional == 100000

\* positions of two symbols, short, flat and long, and three defects: one
\* that fails every scenario, one that fails only the volatility lookup,
\* and one that fails correlation_breakdown only inside the volatility
\* computation
ScenarioPositions ==
    { Position(s, q, p, "none") : s \in {"EURUSD", "GBPUSD"}, q \in {-2, 0, 1}, p \in EntryPrices }
    \cup { Position("EURUSD", 1, 1, d) : d \in {"not_a_dict", "symbol_unhashable", "no_entry_price"} }

ScenarioPortfolios ==
    UNION {[1..n -> ScenarioPositions] : n \in 0..MaxPositions}
    \cup {<<Position("EURUSD", ReferenceNotional, 1, "none")>>,
          <<Position("EURUSD", -1, ReferenceNotional, "none")>>}

\* at most this many names in the list
MaxScenarios == 2

ScenarioNames == KnownScenarios \cup {"black_swan"}

ScenarioLists == UNION {[1..n -> ScenarioNames] : n \in 0..MaxScenarios}

InitScenarios ==
    /\ pc = "scenario_request"
    /\ portfolio \in ScenarioPortfolios
    /\ scenarios \in ScenarioLists
    /\ scenario_results = NoScenarioResults
    /\ timeframe = [kind |-> "str", value |-> "1d"]
    /\ confidence_level = [kind |-> "num", value |-> 95]
    /\ rng = NoRandom
    /\ draws = 0
    /\ var_results = NoVarResults
    /\ risk_result = _get_empty_risk_result
    /\ raised = FALSE
    /\ NoPatternRequest
    /\ NoReturnsRequest
    /\ NoRecommendationRequest
    /\ NoSharedRequests
    /\ NoRestRequest

RunScenarioAnalysis ==
    /\ pc = "scenario_request"
    /\ LET run == run_scenario_analysis(portfolio, scenarios)
       IN  /\ raised' = run.raises
           /\ scenario_results' = run.results
    /\ pc' = "scenario_done"
    /\ UNCHANGED <<portfolio, timeframe, confidence_level, rng, draws, var_results,
                   risk_result, scenarios>>
    /\ UNCHANGED patternVars
    /\ UNCHANGED <<returnsVars, recommendationVars, instanceVars, restVars>>

SpecScenarios == InitScenarios /\ [][RunScenarioAnalysis]_vars

(***************************************************************************)
(* _generate_correlated_returns on any short portfolio.                    *)
(***************************************************************************)
\* what matters of a position here is its symbol: two symbols of the
\* tables, one of neither table, and the three ways a symbol fails
ReturnsPositions ==
    { Position(s, 1, 1, "none") : s \in RiskSymbols }
    \cup { Position("EURUSD", 1, 1, d) : d \in {"no_symbol", "not_a_dict", "symbol_unhashable"} }

ReturnsPortfolios == UNION {[1..n -> ReturnsPositions] : n \in 0..MaxPositions}

\* standard normal draws, and draws of N(0, 0.01) in units of 0.01
NormalDraws == {-1, 2}

FallbackDraws == {-1, 1}

InitReturns ==
    /\ pc = "returns_request"
    /\ portfolio \in ReturnsPortfolios
    /\ independent_returns \in [1..Len(portfolio) -> NormalDraws]
    /\ fallback_returns \in [1..Len(portfolio) -> FallbackDraws]
    /\ rounding_up \in BOOLEAN
    /\ correlation_matrix = << >>
    /\ correlated_returns = NoReturns
    /\ timeframe = [kind |-> "str", value |-> "1d"]
    /\ confidence_level = [kind |-> "num", value |-> 95]
    /\ rng = NoRandom
    /\ draws = 0
    /\ var_results = NoVarResults
    /\ risk_result = _get_empty_risk_result
    /\ raised = FALSE
    /\ NoPatternRequest
    /\ NoScenarioRequest
    /\ NoRecommendationRequest
    /\ NoSharedRequests
    /\ NoRestRequest

GenerateCorrelatedReturns ==
    /\ pc = "returns_request"
    /\ LET run == _generate_correlated_returns(portfolio, independent_returns,
                                               fallback_returns, rounding_up)
       IN  /\ raised' = run.raises
           /\ correlation_matrix' = run.matrix
           /\ correlated_returns' = [path |-> run.path, values |-> run.values]
           /\ draws' = draws + run.draws
    /\ pc' = "returns_done"
    /\ UNCHANGED <<portfolio, timeframe, confidence_level, rng, var_results, risk_result>>
    /\ UNCHANGED <<independent_returns, fallback_returns, rounding_up>>
    /\ UNCHANGED patternVars
    /\ UNCHANGED <<scenarioVars, recommendationVars, instanceVars, restVars>>

SpecReturns == InitReturns /\ [][GenerateCorrelatedReturns]_vars

(***************************************************************************)
(* _generate_risk_recommendations on metrics at, just below and just above *)
(* every threshold of its rules.                                           *)
(***************************************************************************)
\* leverage in millionths, var in hundredths, the ratios in thousandths
MetricValues ==
    [leverage : {0, 3000000, 3000001, 5000000, 5000001},
     var : {0, 5 * account_balance, 5 * account_balance + 1,
            10 * account_balance, 10 * account_balance + 1},
     sharpe_ratio : {-300, 499, 500, 2000, 2001},
     max_drawdown : {0, 20000, 20001}]

InitRecommendations ==
    /\ pc = "recommendations_request"
    /\ metrics \in MetricValues
    /\ advice = << >>
    /\ NoPatternRequest
    /\ NoRiskRequest
    /\ NoScenarioRequest
    /\ NoReturnsRequest
    /\ NoSharedRequests
    /\ NoRestRequest

GenerateRiskRecommendations ==
    /\ pc = "recommendations_request"
    /\ advice' = _generate_risk_recommendations(
           [leverage |-> metrics.leverage],
           [var |-> metrics.var],
           [sharpe_ratio |-> metrics.sharpe_ratio, max_drawdown |-> metrics.max_drawdown])
    /\ pc' = "recommendations_done"
    /\ UNCHANGED metrics
    /\ UNCHANGED <<patternVars, riskVars, scenarioVars, returnsVars, instanceVars, restVars>>

SpecRecommendations == InitRecommendations /\ [][GenerateRiskRecommendations]_vars

(***************************************************************************)
(* One trial of the historical or of the Monte Carlo simulation, on the    *)
(* standard normal draws of the trial.                                     *)
(***************************************************************************)
\* three symbols, of positive and of negative correlation, each at a price
TrialPrices == ("EURUSD" :> 1) @@ ("GBPUSD" :> 3) @@ ("USDCHF" :> 2)

TrialPositions ==
    { Position(s, q, TrialPrices[s], "none") : s \in DOMAIN TrialPrices, q \in (-1)..MaxSize }

TrialPortfolios == UNION {[1..n -> TrialPositions] : n \in 0..MaxPositions}

InitTrials ==
    /\ pc = "trial_request"
    /\ portfolio \in TrialPortfolios
    /\ independent_returns \in [1..Len(portfolio) -> NormalDraws]
    /\ fallback_returns = independent_returns
    /\ rounding_up \in (IF RoundingDecides(CorrelationMatrix(portfolio))
                        THEN BOOLEAN ELSE {FALSE})
    /\ correlation_matrix = << >>
    /\ correlated_returns = NoReturns
    /\ trial_pnl = [method |-> "none", pnl |-> 0]
    /\ timeframe = [kind |-> "str", value |-> "1d"]
    /\ confidence_level = [kind |-> "num", value |-> 95]
    /\ rng = NoRandom
    /\ draws = 0
    /\ var_results = NoVarResults
    /\ risk_result = _get_empty_risk_result
    /\ raised = FALSE
    /\ days_result = [raises |-> FALSE, days |-> 0]
    /\ NoPatternRequest
    /\ NoScenarioRequest
    /\ NoRecommendationRequest
    /\ NoSharedRequests
    /\ NoBroker
    /\ NoCache

RunHistoricalTrial ==
    /\ pc = "trial_request"
    /\ trial_pnl' = [method |-> "historical",
                     pnl |-> HistoricalTrial(portfolio, independent_returns)]
    /\ draws' = draws + Len(portfolio)
    /\ pc' = "trial_done"
    /\ UNCHANGED <<portfolio, timeframe, confidence_level, rng, var_results, risk_result,
                   raised>>
    /\ UNCHANGED <<patternVars, scenarioVars, returnsVars, recommendationVars,
                   instanceVars, conversionVars, brokerVars, cacheVars>>

RunMonteCarloTrial ==
    /\ pc = "trial_request"
    /\ trial_pnl' = [method |-> "monte_carlo",
                     pnl |-> MonteCarloTrial(portfolio, independent_returns,
                                             fallback_returns, rounding_up)]
    /\ draws' = draws + Len(portfolio)
    /\ pc' = "trial_done"
    /\ UNCHANGED <<portfolio, timeframe, confidence_level, rng, var_results, risk_result,
                   raised>>
    /\ UNCHANGED <<patternVars, scenarioVars, returnsVars, recommendationVars,
                   instanceVars, conversionVars, brokerVars, cacheVars>>

NextTrials == RunHistoricalTrial \/ RunMonteCarloTrial

SpecTrials == InitTrials /\ [][NextTrials]_vars

(***************************************************************************)
(* _calculate_parametric_var on any short portfolio of sound positions.    *)
(***************************************************************************)
ParametricTimeframes == {[kind |-> "str", value |-> v] : v \in {"1d", "1m"}}

ParametricConfidenceLevels == {[kind |-> "num", value |-> v] : v \in {5, 50, 90, 99}}

InitParametric ==
    /\ pc = "parametric_request"
    /\ portfolio \in TrialPortfolios
    /\ timeframe \in ParametricTimeframes
    /\ confidence_level \in ParametricConfidenceLevels
    /\ rng = NoRandom
    /\ draws = 0
    /\ var_results = NoVarResults
    /\ risk_result = _get_empty_risk_result
    /\ raised = FALSE
    /\ NoPatternRequest
    /\ NoAuxRequest

CalculateParametricVar ==
    /\ pc = "parametric_request"
    /\ var_results' =
           [var_results EXCEPT !.parametric_var =
               _calculate_parametric_var(portfolio,
                   _convert_timeframe_to_days(timeframe).days, confidence_level)]
    /\ pc' = "parametric_done"
    /\ UNCHANGED <<portfolio, timeframe, confidence_level, rng, draws, risk_result, raised>>
    /\ UNCHANGED patternVars
    /\ UNCHANGED auxVars

SpecParametric == InitParametric /\ [][CalculateParametricVar]_vars

(***************************************************************************)
(* _convert_timeframe_to_days on any short string.                         *)
(***************************************************************************)
\* the strings a caller may pass: a count and a unit, either possibly
\* missing, in either case, with or without a blank
TimeframeCounts == {"", "1", "2", "3", "5", "6", "10", "01", " 1"}

TimeframeUnits == {"", "d", "w", "m", "y", "D", "W", "M", "Y", "h", "d ", "mo"}

TimeframeStrings == {count \o unit : count \in TimeframeCounts, unit \in TimeframeUnits}

InitTimeframes ==
    /\ pc = "timeframe_request"
    /\ timeframe \in {[kind |-> "str", value |-> v] : v \in TimeframeStrings}
    /\ days_result = [raises |-> FALSE, days |-> 0]
    /\ portfolio = << >>
    /\ confidence_level = [kind |-> "num", value |-> 95]
    /\ rng = NoRandom
    /\ draws = 0
    /\ var_results = NoVarResults
    /\ risk_result = _get_empty_risk_result
    /\ raised = FALSE
    /\ NoPatternRequest
    /\ NoScenarioRequest
    /\ NoReturnsRequest
    /\ NoRecommendationRequest
    /\ NoSharedRequests
    /\ NoTrialRequest
    /\ NoBroker
    /\ NoCache

ConvertTimeframeToDays ==
    /\ pc = "timeframe_request"
    /\ days_result' = _convert_timeframe_to_days(timeframe)
    /\ pc' = "timeframe_done"
    /\ UNCHANGED <<patternVars, riskVars, scenarioVars, returnsVars, recommendationVars,
                   instanceVars, trialVars, brokerVars, cacheVars>>

SpecTimeframes == InitTimeframes /\ [][ConvertTimeframeToDays]_vars

(***************************************************************************)
(* The broker connector (mt5-service/app.py).  The MetaTrader5 module      *)
(* keeps one connection to the terminal: initialized or not, and the       *)
(* account logged in (0: none).  What mt5.initialize, mt5.login and the    *)
(* data calls return is up to the terminal and the broker: each outcome is *)
(* an input, "true", "false" or "raises".                                  *)
(***************************************************************************)
Outcomes == {"true", "false", "raises"}

\* mt5.shutdown()
mt5_shutdown(t) == Disconnected

\* mt5.initialize(): the connection is up exactly when it returns True
mt5_initialize(t, outcome) ==
    IF outcome = "true" THEN [t EXCEPT !.initialized = TRUE] ELSE Disconnected

\* mt5.login(...): the account changes exactly when it returns True
mt5_login(t, login, outcome) ==
    IF outcome = "true" THEN [t EXCEPT !.account = login] ELSE t

\* the service object and the terminal after a method, and what it returned
Service(result, flag, config, t) ==
    [result |-> result, initialized |-> flag, connection_config |-> config, terminal |-> t]

\* MT5Service.initialize
initialize(flag, config, t, init_outcome, login_outcome) ==
    LET t1 == mt5_initialize(t, init_outcome)
    IN  IF init_outcome # "true" THEN Service(FALSE, flag, config, t1)
        ELSE IF config.login # 0 /\ config.password # ""
        THEN IF login_outcome # "true"
             THEN Service(FALSE, flag, config, mt5_login(t1, config.login, login_outcome))
             ELSE Service(TRUE, TRUE, config, mt5_login(t1, config.login, login_outcome))
        ELSE Service(TRUE, TRUE, config, t1)

\* MT5Service.connect_with_credentials; numeric: int(login) does not raise
connect_with_credentials(flag, config, t, login, numeric, init_outcome, login_outcome) ==
    LET t1 == mt5_initialize(mt5_shutdown(t), init_outcome)
    IN  IF init_outcome # "true" THEN Service(FALSE, flag, config, t1)
        ELSE IF ~numeric THEN Service(FALSE, flag, config, t1)
        ELSE IF login_outcome # "true"
        THEN Service(FALSE, flag, config, mt5_login(t1, login, login_outcome))
        ELSE Service(TRUE, TRUE,
                     [login |-> login, password |-> "secret", server |-> "demo"],
                     mt5_login(t1, login, login_outcome))

\* the guard at the head of every data method:
\*   if not self.initialized: if not self.initialize(): raise
EnsureInitialized(flag, config, t, init_outcome, login_outcome) ==
    IF flag THEN Service(TRUE, flag, config, t)
    ELSE initialize(flag, config, t, init_outcome, login_outcome)

\* a data call of the module answers only on a connection that is up
DataCall(t, data_outcome) == t.initialized /\ data_outcome = "true"

(***************************************************************************)
(* The broker connector under any sequence of requests.                    *)
(***************************************************************************)
Logins == {1, 2}

EnvironmentConfigs ==
    {[login |-> 0, password |-> "", server |-> ""],
     [login |-> 1, password |-> "secret", server |-> "demo"]}

\* run as a program the connector initializes before it serves (broker_main);
\* imported by a server it serves at once (broker)
InitBroker ==
    /\ pc \in {"broker_main", "broker"}
    /\ initialized = FALSE
    /\ connection_config \in EnvironmentConfigs
    /\ terminal = Disconnected
    /\ last_attempt = "none"
    /\ response = [endpoint |-> "none", status |-> 0]
    /\ NoPatternRequest
    /\ NoRiskRequest
    /\ NoScenarioRequest
    /\ NoReturnsRequest
    /\ NoRecommendationRequest
    /\ NoSharedRequests
    /\ NoConversionRequest
    /\ NoTrialRequest
    /\ NoCache

Attempt(result) == IF result THEN "succeeded" ELSE "failed"

BrokerUnchanged ==
    UNCHANGED <<patternVars, riskVars, scenarioVars, returnsVars, recommendationVars,
                instanceVars, conversionVars, trialVars, cacheVars>>

\* mt5_service.initialize() at startup
Initialize ==
    /\ pc = "broker_main"
    /\ pc' = "broker"
    /\ \E init_outcome, login_outcome \in Outcomes :
        LET after == initialize(initialized, connection_config, terminal,
                                init_outcome, login_outcome)
        IN  /\ initialized' = after.initialized
            /\ connection_config' = after.connection_config
            /\ terminal' = after.terminal
            /\ last_attempt' = Attempt(after.result)
            /\ response' = [endpoint |-> "startup", status |-> 0]
            /\ BrokerUnchanged

\* POST /api/connect: complete is whether login, password and server are
\* all given; on success the account is read to verify the connection
ConnectMt5 ==
    /\ pc = "broker"
    /\ UNCHANGED pc
    /\ \E login \in Logins, complete, numeric \in BOOLEAN,
       init_outcome, login_outcome, data_outcome \in Outcomes :
        IF ~complete
        THEN /\ response' = [endpoint |-> "connect", status |-> 400]
             /\ UNCHANGED <<initialized, connection_config, terminal, last_attempt>>
             /\ BrokerUnchanged
        ELSE LET after == connect_with_credentials(initialized, connection_config,
                              terminal, login, numeric, init_outcome, login_outcome)
             IN  /\ initialized' = after.initialized
                 /\ connection_config' = after.connection_config
                 /\ terminal' = after.terminal
                 /\ last_attempt' = Attempt(after.result)
                 /\ response' =
                        [endpoint |-> "connect",
                         status |-> IF ~after.result THEN 400
                                    ELSE IF DataCall(after.terminal, data_outcome) THEN 200
                                    ELSE 500]
                 /\ BrokerUnchanged

\* POST /api/disconnect
DisconnectMt5 ==
    /\ pc = "broker"
    /\ UNCHANGED pc
    /\ terminal' = mt5_shutdown(terminal)
    /\ initialized' = FALSE
    /\ response' = [endpoint |-> "disconnect", status |-> 200]
    /\ UNCHANGED <<connection_config, last_attempt>>
    /\ BrokerUnchanged

\* a data request: the guard, then the data call
Query(endpoint, none_is_error) ==
    /\ pc = "broker"
    /\ UNCHANGED pc
    /\ \E init_outcome, login_outcome, data_outcome \in Outcomes :
        LET after == EnsureInitialized(initialized, connection_config, terminal,
                                       init_outcome, login_outcome)
        IN  /\ initialized' = after.initialized
            /\ connection_config' = after.connection_config
            /\ terminal' = after.terminal
            /\ last_attempt' = IF initialized THEN last_attempt ELSE Attempt(after.result)
            /\ response' =
                   [endpoint |-> endpoint,
                    status |-> IF ~after.result \/ data_outcome = "raises" THEN 500
                               ELSE IF DataCall(after.terminal, data_outcome) THEN 200
                               ELSE IF none_is_error THEN 500 ELSE 200]
            /\ BrokerUnchanged

\* GET /api/symbol-info/<symbol>: None from the module is an error
GetSymbolInfo == Query("symbol_info", TRUE)

\* GET /api/rates/<symbol>: None from the module is an error
GetRates == Query("rates", TRUE)

\* GET /api/account: None from the module is an error
GetAccountInfo == Query("account", TRUE)

\* GET /api/positions: None from the module is an empty list
GetPositions == Query("positions", FALSE)

\* GET /api/trades/history: None from the module is an empty list
GetTradeHistory == Query("trades_history", FALSE)

NextBroker ==
    \/ Initialize
    \/ ConnectMt5
    \/ DisconnectMt5
    \/ GetSymbolInfo
    \/ GetRates
    \/ GetAccountInfo
    \/ GetPositions
    \/ GetTradeHistory

SpecBroker == InitBroker /\ [][NextBroker]_vars

(***************************************************************************)
(* The model cache of the analytics service (app.py).  Flask serves each   *)
(* request in a thread of its own; a handler reads the slot, calls the     *)
(* constructor and stores the instance in three separate steps, and        *)
(* another handler may run between any two of them.  An instance is        *)
(* identified by its number among the instances of its model.              *)
(***************************************************************************)
InitCache ==
    /\ pc \in {"cache_main", "cache"}
    /\ NoCache
    /\ NoPatternRequest
    /\ NoRiskRequest
    /\ NoScenarioRequest
    /\ NoReturnsRequest
    /\ NoRecommendationRequest
    /\ NoSharedRequests
    /\ NoConversionRequest
    /\ NoTrialRequest
    /\ NoBroker

CacheUnchanged ==
    UNCHANGED <<patternVars, riskVars, scenarioVars, returnsVars, recommendationVars,
                instanceVars, conversionVars, trialVars, brokerVars>>

\* initialize_models() under __main__, before app.run serves any request
initialize_models ==
    /\ pc = "cache_main"
    /\ constructions' = [name \in ModelNames |-> constructions[name] + 1]
    /\ models' = [name \in ModelNames |-> constructions'[name]]
    /\ pc' = "cache"
    /\ UNCHANGED handlers
    /\ CacheUnchanged

\* a handler thread takes a request that needs the model `name`
Accept(t, name) ==
    /\ pc = "cache"
    /\ handlers[t].at \in {"idle", "done"}
    /\ handlers' = [handlers EXCEPT ![t] = [at |-> "check", name |-> name, instance |-> 0]]
    /\ UNCHANGED <<pc, models, constructions>>
    /\ CacheUnchanged

\* POST /analyze/patterns
analyze_patterns == \E t \in Handlers : Accept(t, "pattern_detector")

\* POST /calculate/risk; an empty portfolio is answered 400 before the cache
calculate_risk ==
    \E t \in Handlers, has_portfolio \in BOOLEAN :
        IF has_portfolio
        THEN Accept(t, "risk_calculator")
        ELSE /\ pc = "cache"
             /\ handlers[t].at \in {"idle", "done"}
             /\ handlers' = [handlers EXCEPT ![t] = [at |-> "done", name |-> "none",
                                                     instance |-> 0]]
             /\ UNCHANGED <<pc, models, constructions>>
             /\ CacheUnchanged

\* `if not models[name]:`
CheckSlot ==
    \E t \in Handlers :
        /\ handlers[t].at = "check"
        /\ handlers' = [handlers EXCEPT ![t].at =
                            IF models[handlers[t].name] = 0 THEN "construct" ELSE "use"]
        /\ UNCHANGED <<pc, models, constructions>>
        /\ CacheUnchanged

\* the constructor call on the right of `models[name] = Model()`
Construct ==
    \E t \in Handlers :
        /\ handlers[t].at = "construct"
        /\ constructions' = [constructions EXCEPT ![handlers[t].name] = @ + 1]
        /\ handlers' = [handlers EXCEPT ![t].at = "store",
                                        ![t].instance = constructions'[handlers[t].name]]
        /\ UNCHANGED <<pc, models>>
        /\ CacheUnchanged

\* the store of `models[name] = Model()`
Store ==
    \E t \in Handlers :
        /\ handlers[t].at = "store"
        /\ models' = [models EXCEPT ![handlers[t].name] = handlers[t].instance]
        /\ handlers' = [handlers EXCEPT ![t].at = "use", ![t].instance = 0]
        /\ UNCHANGED <<pc, constructions>>
        /\ CacheUnchanged

\* `models[name].detect_patterns(...)`, `models[name].calculate_portfolio_risk(...)`:
\* the request works on the instance it finds in the slot
UseModel ==
    \E t \in Handlers :
        /\ handlers[t].at = "use"
        /\ handlers' = [handlers EXCEPT ![t].at = "done",
                                        ![t].instance = models[handlers[t].name]]
        /\ UNCHANGED <<pc, models, constructions>>
        /\ CacheUnchanged

NextCache ==
    \/ initialize_models
    \/ analyze_patterns
    \/ calculate_risk
    \/ CheckSlot
    \/ Construct
    \/ Store
    \/ UseModel

SpecCache == InitCache /\ [][NextCache]_vars

(***************************************************************************)
(* Requests on the shared instances, interleaved access by access.         *)
(***************************************************************************)
\* at most this many requests, each in a thread of its own
MaxRequests == 2

InitShared ==
    /\ pc = "serving"
    /\ requests = [r \in 1..MaxRequests |-> NoRequest]
    /\ last_trained = [model \in Models |-> 0]
    /\ volatility_table = default_volatilities
    /\ correlation_table = default_correlations
    /\ access_log = {}
    /\ now = 0
    /\ NoPatternRequest
    /\ NoRiskRequest
    /\ NoScenarioRequest
    /\ NoReturnsRequest
    /\ NoRecommendationRequest
    /\ NoRestRequest

\* request r makes its next access to the instance
Perform(r, access, training_data) ==
    /\ requests' = [requests EXCEPT ![r].at = @ + 1]
    /\ access_log' = access_log \cup
           {[request |-> r, op |-> requests[r].op, kind |-> access.kind,
             model |-> access.model, field |-> access.field]}
    /\ IF access.kind = "write"
       THEN /\ now' = now + 1     \* datetime.utcnow()
            /\ last_trained' = [last_trained EXCEPT ![access.model] = now + 1]
       ELSE UNCHANGED <<now, last_trained>>
    /\ IF access.kind = "update" /\ training_data
       THEN /\ correlation_table' = _update_correlations(correlation_table, training_data)
            /\ volatility_table' = _update_volatilities(volatility_table, training_data)
       ELSE UNCHANGED <<correlation_table, volatility_table>>

\* a thread starts the operation, or a thread that is in it goes on
Serve(op) ==
    /\ pc = "serving"
    /\ \E r \in 1..MaxRequests :
           \/ /\ requests[r] = NoRequest
              /\ requests' = [requests EXCEPT ![r] = [op |-> op, at |-> 0]]
              /\ UNCHANGED <<last_trained, volatility_table, correlation_table,
                             access_log, now>>
           \/ /\ requests[r].op = op
              /\ requests[r].at < Len(Accesses(op))
              /\ \E training_data \in BOOLEAN :
                     Perform(r, Accesses(op)[requests[r].at + 1], training_data)
    /\ UNCHANGED <<pc, patternVars, riskVars, scenarioVars, returnsVars, recommendationVars,
                   restVars>>

DetectPatternsRequest == Serve("detect_patterns")

CalculateReliabilityRequest == Serve("calculate_reliability")

CalculatePortfolioRiskRequest == Serve("calculate_portfolio_risk")

RunScenarioAnalysisRequest == Serve("run_scenario_analysis")

RetrainPatternDetector == Serve("retrain_pattern_detector")

RetrainRiskCalculator == Serve("retrain_risk_calculator")

ModelStatus == Serve("model_status")

NextShared ==
    \/ DetectPatternsRequest
    \/ CalculateReliabilityRequest
    \/ CalculatePortfolioRiskRequest
    \/ RunScenarioAnalysisRequest
    \/ RetrainPatternDetector
    \/ RetrainRiskCalculator
    \/ ModelStatus

SpecShared == InitShared /\ [][NextShared]_vars

(***************************************************************************)
(* The pattern endpoint: detect_patterns, then calculate_reliability on    *)
(* the list it returned.                                                   *)
(***************************************************************************)
Init ==
    /\ pc = "request"
    /\ data \in SeriesSet
    /\ has_volume = TRUE
    /\ pattern_types \in TypeArgs
    \* the RSI series is computed only when trends are asked for
    /\ rsi_higher_low \in (IF RequestsTrends(pattern_types) THEN BOOLEAN ELSE {FALSE})
    /\ missing_column = "none"
    /\ detect_raised = FALSE
    /\ all_patterns = << >>
    /\ patterns_arg = << >>
    /\ reliability_scores = NoScores
    /\ levels_arg = << >>
    /\ clustered_levels = << >>
    /\ NoRiskRequest
    /\ NoAuxRequest

DetectPatterns ==
    /\ pc = "request"
    /\ detect_raised' = DetectPatternsRaises(data, missing_column, pattern_types)
    /\ all_patterns' =
           DetectPatternsCall(data, missing_column, pattern_types, rsi_higher_low).patterns
    /\ pc' = IF detect_raised' THEN "failed" ELSE "detected"
    /\ UNCHANGED <<data, has_volume, pattern_types, rsi_higher_low, missing_column,
                   patterns_arg,
                   reliability_scores, levels_arg, clustered_levels>>
    /\ UNCHANGED riskVars
    /\ UNCHANGED auxVars

CalculateReliability ==
    /\ pc = "detected"
    /\ LET r == calculate_reliability(data, has_volume, all_patterns)
       IN  /\ reliability_scores' = r.scores
           /\ patterns_arg' = r.patterns
           /\ data' = r.data
    /\ pc' = "scored"
    /\ UNCHANGED <<has_volume, pattern_types, rsi_higher_low, missing_column,
                   detect_raised, all_patterns,
                   levels_arg, clustered_levels>>
    /\ UNCHANGED riskVars
    /\ UNCHANGED auxVars

Next == DetectPatterns \/ CalculateReliability

Spec == Init /\ [][Next]_vars

(***************************************************************************)
(* detect_patterns on frames that are empty or lack a price column.        *)
(***************************************************************************)
Columns == {"open", "high", "low", "close"}

FrameSeries == {<< >>} \cup { Series(a, b, Lift, 0, 0, 7) : a \in Shapes, b \in Shapes }

InitFrames ==
    /\ pc = "request"
    /\ data \in FrameSeries
    /\ has_volume = TRUE
    /\ pattern_types \in TypeArgs
    /\ rsi_higher_low \in (IF RequestsTrends(pattern_types) THEN BOOLEAN ELSE {FALSE})
    /\ missing_column \in Columns \cup {"none"}
    /\ detect_raised = FALSE
    /\ all_patterns = << >>
    /\ patterns_arg = << >>
    /\ reliability_scores = NoScores
    /\ levels_arg = << >>
    /\ clustered_levels = << >>
    /\ NoRiskRequest
    /\ NoAuxRequest

SpecFrames == InitFrames /\ [][Next]_vars

(***************************************************************************)
(* Candlestick matchers on every pair of adjacent candles of a grid.       *)
(***************************************************************************)
\* the prices of a grid candle are Base .. Base + MaxOff
MaxOff == 4

GridCandles ==
    { c \in [open : Base..(Base + MaxOff), high : Base..(Base + MaxOff),
             low : Base..(Base + MaxOff), close : Base..(Base + MaxOff)] :
        /\ c.low <= Min2(c.open, c.close)
        /\ Max2(c.open, c.close) <= c.high }

InitCandles ==
    /\ pc = "request"
    /\ data \in {<<a, b>> : a \in GridCandles, b \in GridCandles}
    /\ has_volume = TRUE
    /\ pattern_types = [is_none |-> FALSE, names |-> {"candlestick"}]
    /\ rsi_higher_low = FALSE
    /\ missing_column = "none"
    /\ detect_raised = FALSE
    /\ all_patterns = << >>
    /\ patterns_arg = << >>
    /\ reliability_scores = NoScores
    /\ levels_arg = << >>
    /\ clustered_levels = << >>
    /\ NoRiskRequest
    /\ NoAuxRequest

SpecCandles == InitCandles /\ [][Next]_vars

(***************************************************************************)
(* The candlestick matchers on one candle of any shape, its four prices    *)
(* in any order, wide enough for a body of a tenth of the range.           *)
(***************************************************************************)
\* the prices of the candle span Base .. Base + MaxSpan
MaxSpan == 12

SpanCandles ==
    [open : Base..(Base + MaxSpan), high : Base..(Base + MaxSpan),
     low : Base..(Base + MaxSpan), close : Base..(Base + MaxSpan)]

InitSpan ==
    /\ pc = "request"
    /\ data \in {<<c>> : c \in SpanCandles}
    /\ has_volume = TRUE
    /\ pattern_types = [is_none |-> FALSE, names |-> {"candlestick"}]
    /\ rsi_higher_low = FALSE
    /\ missing_column = "none"
    /\ detect_raised = FALSE
    /\ all_patterns = << >>
    /\ patterns_arg = << >>
    /\ reliability_scores = NoScores
    /\ levels_arg = << >>
    /\ clustered_levels = << >>
    /\ NoRiskRequest
    /\ NoAuxRequest

SpecSpan == InitSpan /\ [][Next]_vars

(***************************************************************************)
(* calculate_reliability on any short list of patterns.                    *)
(***************************************************************************)
\* the confidences of the patterns handed in: multiples of ConfStep, and 1.0
ConfStep == 125

ConfGrid == {c \in 0..1000 : c % ConfStep = 0 \/ c = 1000}

\* at most this many patterns in the list
MaxPatterns == 2

PatternArgs ==
    { Pattern(<<name, 0>>, "candlestick", name, 0, 0, c, "neutral") :
        name \in {"doji", "hammer"}, c \in ConfGrid }

PatternLists == UNION {[1..n -> PatternArgs] : n \in 0..MaxPatterns}

InitReliability ==
    /\ pc = "detected"
    /\ data \in {<< >>, <<Candle(Base, Base, Base, Base)>>}
    /\ has_volume \in BOOLEAN
    /\ pattern_types = [is_none |-> TRUE, names |-> {}]
    /\ rsi_higher_low = FALSE
    /\ missing_column = "none"
    /\ detect_raised = FALSE
    /\ all_patterns \in PatternLists
    /\ patterns_arg = << >>
    /\ reliability_scores = NoScores
    /\ levels_arg = << >>
    /\ clustered_levels = << >>
    /\ NoRiskRequest
    /\ NoAuxRequest

SpecReliability == InitReliability /\ [][CalculateReliability]_vars

(***************************************************************************)
(* _cluster_levels on any short array of levels.                           *)
(***************************************************************************)
\* at most this many levels in the array
MaxLevels == 4

\* the levels are Base + LevelStep * (0 .. MaxLevelSteps)
LevelStep == 6

MaxLevelSteps == 4

LevelArrays ==
    UNION {[1..n -> {Base + LevelStep * k : k \in 0..MaxLevelSteps}] : n \in 0..MaxLevels}

InitCluster ==
    /\ pc = "levels"
    /\ levels_arg \in LevelArrays
    /\ data = << >>
    /\ has_volume = TRUE
    /\ pattern_types = [is_none |-> TRUE, names |-> {}]
    /\ rsi_higher_low = FALSE
    /\ missing_column = "none"
    /\ detect_raised = FALSE
    /\ all_patterns = << >>
    /\ patterns_arg = << >>
    /\ reliability_scores = NoScores
    /\ clustered_levels = << >>
    /\ NoRiskRequest
    /\ NoAuxRequest

ClusterLevels ==
    /\ pc = "levels"
    /\ clustered_levels' = _cluster_levels(levels_arg)
    /\ pc' = "clustered"
    /\ UNCHANGED <<data, has_volume, pattern_types, rsi_higher_low, missing_column,
                   detect_raised, all_patterns,
                   patterns_arg, reliability_scores, levels_arg>>
    /\ UNCHANGED riskVars
    /\ UNCHANGED auxVars

SpecCluster == InitCluster /\ [][ClusterLevels]_vars

(***************************************************************************)
(* Properties.                                                             *)
(***************************************************************************)
Range(seq) == {seq[k] : k \in 1..Len(seq)}

Count(seq, e) == Cardinality({k \in 1..Len(seq) : seq[k] = e})

FirstPos(seq, e) == CHOOSE k \in 1..Len(seq) : seq[k] = e /\ \A j \in 1..(k - 1) : seq[j] # e

Requested(arg, family) == arg.is_none \/ family \in arg.names

\* what the requested families return, one after the other
RequestedResults ==
    (IF Requested(pattern_types, "support_resistance")
     THEN _detect_support_resistance(data) ELSE << >>)
    \o (IF Requested(pattern_types, "trends")
        THEN _detect_trends(data, rsi_higher_low) ELSE << >>)
    \o (IF Requested(pattern_types, "candlestick")
        THEN _detect_candlestick_patterns(data) ELSE << >>)
    \o (IF Requested(pattern_types, "technical")
        THEN _detect_chart_patterns(data) ELSE << >>)

\* C1: the list detect_patterns returns is a permutation of the results of
\* the requested families one after the other (a family not requested
\* contributes nothing), its confidences never increase along the list, and
\* patterns of equal confidence keep the order they have in that concatenation.
C1_SortedRequestedFamilies ==
    pc # "request" =>
        LET cat == RequestedResults
        IN  /\ Len(all_patterns) = Len(cat)
            /\ \A p \in Range(cat) \cup Range(all_patterns) :
                  Count(all_patterns, p) = Count(cat, p)
            /\ \A p \in Range(all_patterns) :
                  Requested(pattern_types, p.type)
            /\ \A k \in 1..(Len(all_patterns) - 1) :
                  /\ all_patterns[k].confidence >= all_patterns[k + 1].confidence
                  /\ all_patterns[k].confidence = all_patterns[k + 1].confidence
                        => FirstPos(cat, all_patterns[k]) <= FirstPos(cat, all_patterns[k + 1])

\* C1 witness: a request whose result holds patterns of two families, two
\* patterns of equal confidence, and differs from the plain concatenation
C1_Witness ==
    /\ pc = "detected"
    /\ all_patterns # RequestedResults
    /\ \E p, q \in Range(all_patterns) : p.type # q.type
    /\ \E k \in 1..(Len(all_patterns) - 1) :
          all_patterns[k].confidence = all_patterns[k + 1].confidence

\* C2: every pattern detect_patterns returns has a confidence in [0, 1]
\* (0..1000 thousandths) and a signal among bullish, bearish, neutral.
C2_ConfidenceAndSignal ==
    pc # "request" =>
        \A p \in Range(all_patterns) :
            /\ p.confidence \in 0..1000
            /\ p.signal \in Signals

\* C2 witness: a result with a level pattern at the 0.9 cap, a trend pattern
\* and a candlestick pattern
C2_Witness ==
    /\ pc = "detected"
    /\ \E p, q, r \in Range(all_patterns) :
          /\ p.type = "support_resistance" /\ p.confidence = 900
          /\ q.type = "trends"
          /\ r.type = "candlestick"

\* the pattern at position k is the one whose score the map holds
Scored(patterns, k) == \A j \in (k + 1)..Len(patterns) : patterns[j].id # patterns[k].id

\* C3: for patterns of confidence c in [0, 1], with or without a volume
\* column, every reliability score is in [0, 1] (0..1000000 millionths) and
\* is at most c * 1.1.
C3_ScoreBounded ==
    pc = "scored" =>
        \A k \in 1..Len(patterns_arg) :
            Scored(patterns_arg, k) =>
                LET score == reliability_scores[patterns_arg[k].id]
                IN  /\ score >= 0
                    /\ score <= 1000000
                    /\ score <= 1100 * patterns_arg[k].confidence

\* C3 witness: a scored pattern of confidence 1.0 on data with a volume
\* column, where the clamp at 1.0 acts
C3_Witness ==
    /\ pc = "scored"
    /\ has_volume
    /\ \E k \in 1..Len(patterns_arg) :
          /\ patterns_arg[k].confidence = 1000
          /\ reliability_scores[patterns_arg[k].id] = 1000000

\* C4: with a volume column, the reliability score of a pattern of
\* confidence c is min(1, c * 1.1 * 1.0 * 1.0).
C4_FlatTenPercentBoost ==
    (pc = "scored" /\ has_volume) =>
        \A k \in 1..Len(patterns_arg) :
            Scored(patterns_arg, k) =>
                reliability_scores[patterns_arg[k].id]
                    = Min2(1000000, 1100 * patterns_arg[k].confidence)

\* C5: calculate_reliability leaves the list, every pattern in it and the
\* series as they were, and returns a map whose keys are exactly the ids of
\* the patterns of the list.
C5_ArgumentsUnchanged ==
    [][(pc = "detected" /\ pc' = "scored") =>
          /\ patterns_arg' = all_patterns
          /\ all_patterns' = all_patterns
          /\ data' = data
          /\ DOMAIN reliability_scores' = {all_patterns[k].id : k \in 1..Len(all_patterns)}]_vars

\* C5 witness: a scored list of two patterns with different ids whose
\* scores differ from their confidences
C5_Witness ==
    /\ pc = "scored"
    /\ Len(patterns_arg) = 2
    /\ patterns_arg[1].id # patterns_arg[2].id
    /\ \A k \in 1..2 :
          reliability_scores[patterns_arg[k].id] # 1000 * patterns_arg[k].confidence

\* two levels of the array are within eps * mean of each other
WithinEps(levels, i, j) ==
    1000 * Len(levels) * Abs(levels[i] - levels[j]) <= SumSeq(levels)

\* C is a cluster of the array: two or more positions, none within eps of a
\* position outside C, and not the union of two parts more than eps apart
IsCluster(levels, C) ==
    /\ Cardinality(C) >= 2
    /\ \A i \in C : \A j \in (1..Len(levels)) \ C : ~WithinEps(levels, i, j)
    /\ \A D \in (SUBSET C) \ {{}, C} :
          \E i \in D : \E j \in C \ D : WithinEps(levels, i, j)

\* C6: every level _cluster_levels returns has touches >= 2 and stands for
\* one cluster of the array (touches is the size of the cluster, level its
\* mean); every cluster gets one level; positions that are noise are in no
\* level; fewer than 2 values give no level.
C6_TouchesAtLeastTwo ==
    pc = "clustered" =>
        LET pos == 1..Len(levels_arg)
            clusters == {C \in SUBSET pos : IsCluster(levels_arg, C)}
            Sum(C) == SumSeq(AsSeq([k \in 1..Cardinality(C) |-> levels_arg[SortedSeq(C)[k]]]))
        IN  /\ \A k \in 1..Len(clustered_levels) :
                  /\ clustered_levels[k].touches >= 2
                  /\ \E C \in clusters :
                        /\ clustered_levels[k].touches = Cardinality(C)
                        /\ clustered_levels[k].level_sum = Sum(C)
            /\ Len(clustered_levels) = Cardinality(clusters)
            /\ SumSeq(AsSeq([k \in 1..Len(clustered_levels) |-> clustered_levels[k].touches]))
                  = Cardinality(UNION clusters)
            /\ Len(levels_arg) < 2 => clustered_levels = << >>

\* C6 witness: an array with a cluster and a noise value, clustered
C6_Witness ==
    /\ pc = "clustered"
    /\ Len(clustered_levels) >= 1
    /\ \E i \in 1..Len(levels_arg) :
          \A j \in (1..Len(levels_arg)) \ {i} : ~WithinEps(levels_arg, i, j)

Fires(name) == \E p \in Range(all_patterns) : p.name = name

\* C7: on a pair of adjacent candles (prev, curr) Bullish Engulfing fires
\* iff prev falls, curr rises, curr.open < prev.close and curr.close >
\* prev.open; Bullish and Bearish Engulfing never both fire on the pair; and
\* when Bullish Engulfing fires it does not fire on the pair swapped.
C7_EngulfingExclusive ==
    (pc # "request" /\ Len(data) = 2) =>
        LET prev == data[1]
            curr == data[2]
        IN  /\ Fires("Bullish Engulfing") <=>
                  /\ prev.close < prev.open
                  /\ curr.close > curr.open
                  /\ curr.open < prev.close
                  /\ curr.close > prev.open
            /\ ~(Fires("Bullish Engulfing") /\ Fires("Bearish Engulfing"))
            /\ Fires("Bullish Engulfing") =>
                  _detect_engulfing_bullish(<<curr, prev>>) = << >>

\* C7 witness: a pair on which Bullish Engulfing fired
C7_Witness ==
    /\ pc = "detected"
    /\ Len(data) = 2
    /\ Fires("Bullish Engulfing")

\* the all-zero risk structure, written out
AllZeroRisk ==
    [net_exposure |-> 0, gross_exposure |-> 0, leverage |-> 0, var |-> 0,
     expected_shortfall |-> 0, max_drawdown |-> 0, sharpe_ratio |-> 0,
     sortino_ratio |-> 0, calmar_ratio |-> 0, volatility_annual |-> 0,
     positions |-> << >>, recommendations |-> << >>]

ReportKeys ==
    {"net_exposure", "gross_exposure", "leverage", "var", "expected_shortfall",
     "max_drawdown", "sharpe_ratio", "sortino_ratio", "calmar_ratio",
     "volatility_annual", "positions", "recommendations"}

PositionKeys ==
    {"symbol", "position", "entry_price", "current_price", "market_value",
     "unrealized_pnl", "position_var", "risk_contribution", "correlation_risk"}

\* a step that no try block of its own guards fails on this request
UnguardedStepFails ==
    /\ portfolio # << >>
    /\ \/ timeframe.kind # "str"
       \/ \E k \in 1..Len(portfolio) : portfolio[k].defect # "none"

\* the report has every key, one full entry per position of the portfolio,
\* in order, and at least one recommendation
CompleteReport(report) ==
    /\ DOMAIN report = ReportKeys
    /\ Len(report.positions) = Len(portfolio)
    /\ \A k \in 1..Len(portfolio) :
        /\ DOMAIN report.positions[k] = PositionKeys
        /\ report.positions[k].symbol = portfolio[k].symbol
        /\ report.positions[k].position = portfolio[k].position
        /\ report.positions[k].entry_price = portfolio[k].entry_price
    /\ report.gross_exposure =
           SumSeq([k \in 1..Len(portfolio) |-> report.positions[k].market_value])
    /\ report.recommendations # << >>

\* C8: calculate_portfolio_risk never raises; when a step that is not
\* individually guarded fails (a position with a missing or ill-typed field,
\* a timeframe that cannot be looked up) it returns the all-zero structure,
\* and on every other non-empty portfolio a complete report, never a
\* partially filled one.
C8_NeverRaisesCompleteOrAllZero ==
    pc = "risk_done" =>
        /\ ~raised
        /\ UnguardedStepFails => risk_result = AllZeroRisk
        /\ (portfolio # << >> /\ ~UnguardedStepFails) => CompleteReport(risk_result)
        /\ risk_result = AllZeroRisk \/ CompleteReport(risk_result)

\* a sound position followed by one without entry_price: the first has drawn
\* its price when the second raises, and the report is all zero
C8_Witness ==
    /\ pc = "risk_done"
    /\ Len(portfolio) = 2
    /\ portfolio[1].defect = "none"
    /\ portfolio[2].defect = "no_entry_price"
    /\ draws = 1
    /\ ~raised
    /\ risk_result = AllZeroRisk

\* C9: on an empty portfolio, whatever the timeframe and the confidence
\* level, calculate_portfolio_risk returns the all-zero structure, with no
\* position, no recommendation (not even the neutral one), and draws no
\* random number.
C9_EmptyPortfolioAllZeroNoDraw ==
    (pc = "risk_done" /\ portfolio = << >>) =>
        /\ risk_result = AllZeroRisk
        /\ risk_result.recommendations = << >>
        /\ draws = 0
        /\ ~raised

\* an empty portfolio with a timeframe and a confidence level that would
\* make later steps fail
C9_Witness ==
    /\ pc = "risk_done"
    /\ portfolio = << >>
    /\ timeframe.kind = "list"
    /\ confidence_level.kind = "str"
    /\ risk_result = AllZeroRisk
    /\ draws = 0

\* two parametric VaR values of the same quantile are equal
SameParametricVar(a, b) ==
    /\ a.z = b.z
    /\ a.z = 0 \/ a.radicand = b.radicand

\* the two positions taken as one, of the summed notional
Merged(pf) == <<Position(pf[1].symbol, position_value(pf[1]) + position_value(pf[2]), 1, "none")>>

\* C10: for two positions of correlation 1.0 in symbols of the same
\* volatility, the parametric VaR of the portfolio equals the parametric
\* VaR of one position of the summed notional, at the timeframe and the
\* confidence level of the request.
C10_PerfectCorrelationAdditive ==
    (/\ pc = "risk_done"
     /\ Len(portfolio) = 2
     /\ ~UnguardedStepFails
     /\ IsNumber(confidence_level)
     /\ _get_correlation(portfolio[1].symbol, portfolio[2].symbol) = 10
     /\ VolatilityOf(portfolio[1].symbol) = VolatilityOf(portfolio[2].symbol))
    => SameParametricVar(
           var_results.parametric_var,
           _calculate_parametric_var(Merged(portfolio),
               _convert_timeframe_to_days(timeframe).days, confidence_level))

\* the names of the request, as a set
RequestedScenarios == {scenarios[k] : k \in 1..Len(scenarios)}

\* the sum of |position| * entry_price over the positions of pf whose size
\* satisfies the sign: 1 for long, -1 for short
SideNotional(pf, sign) ==
    SumSeq([k \in 1..Len(pf) |->
        IF pf[k].position * sign > 0 THEN Abs(pf[k].position) * pf[k].entry_price ELSE 0])

\* the positions of pf that are long with a notional that is not 0
RECURSIVE LongPositions(_)
LongPositions(pf) ==
    IF pf = << >> THEN << >>
    ELSE (IF Head(pf).position > 0 /\ Abs(Head(pf).position) * Head(pf).entry_price # 0
          THEN <<Head(pf)>> ELSE << >>) \o LongPositions(Tail(pf))

\* C11: on every portfolio of well-formed positions the market_crash
\* scenario returns probability 0.05, expected_loss = 0.40 * (notional of
\* the long positions - notional of the short positions), worst_case_loss =
\* 1.5 * expected_loss, and lists as affected exactly the long positions of
\* non-zero notional, in portfolio order, each with its own loss of 40%.
\* Losses are in hundredths: 40000 is 4000000.
C11_MarketCrash ==
    (/\ pc = "scenario_done"
     /\ "market_crash" \in RequestedScenarios
     /\ \A k \in 1..Len(portfolio) : portfolio[k].defect = "none")
    => LET r == scenario_results["market_crash"]
           long == LongPositions(portfolio)
       IN  /\ r.probability = 5
           /\ r.expected_loss = 40 * (SideNotional(portfolio, 1) - SideNotional(portfolio, -1))
           /\ 2 * r.worst_case_loss = 3 * r.expected_loss
           /\ Len(r.affected_positions) = Len(long)
           /\ \A k \in 1..Len(long) :
                 /\ r.affected_positions[k].symbol = long[k].symbol
                 /\ r.affected_positions[k].expected_loss
                        = 40 * Abs(long[k].position) * long[k].entry_price
                 /\ r.affected_positions[k].expected_loss > 0
           /\ (portfolio = <<Position("EURUSD", ReferenceNotional, 1, "none")>>)
                  => r.expected_loss = 4000000

\* a crash on the single long position of notional 100,000: the expected
\* loss is 40,000 and the position is listed
C11_Witness ==
    /\ pc = "scenario_done"
    /\ portfolio = <<Position("EURUSD", ReferenceNotional, 1, "none")>>
    /\ "market_crash" \in DOMAIN scenario_results
    /\ scenario_results["market_crash"].expected_loss = 4000000
    /\ scenario_results["market_crash"].worst_case_loss = 6000000
    /\ Len(scenario_results["market_crash"].affected_positions) = 1

(***************************************************************************)
(* The correlation matrix and the two lookups.                             *)
(***************************************************************************)
\* every symbol of the two tables, and one that is in neither
AllSymbols ==
    DOMAIN default_volatilities
    \cup {pair[1] : pair \in DOMAIN default_correlations}
    \cup {pair[2] : pair \in DOMAIN default_correlations}
    \cup {"XAUUSD"}

PairInTable(a, b) ==
    <<a, b>> \in DOMAIN default_correlations \/ <<b, a>> \in DOMAIN default_correlations

WellFormed(pf) == \A k \in 1..Len(pf) : pf[k].defect = "none"

\* C12: the correlation matrix built by _generate_correlated_returns for n
\* positions is n x n, symmetric, with 1.0 on the diagonal and the looked-up
\* correlation of symbols i and j at (i, j); the lookup is symmetric in its
\* arguments, gives 1.0 for identical symbols and 0.0 for a pair in neither
\* order in the table; a symbol without a volatility entry has 0.10.
C12_CorrelationMatrixAndLookups ==
    /\ (pc = "returns_done" /\ WellFormed(portfolio)) =>
           LET n == Len(portfolio)
           IN  /\ Len(correlation_matrix) = n
               /\ \A i \in 1..n : Len(correlation_matrix[i]) = n
               /\ \A i \in 1..n : correlation_matrix[i][i] = 10
               /\ \A i \in 1..n : \A j \in 1..n :
                      /\ correlation_matrix[i][j] = correlation_matrix[j][i]
                      /\ i # j => correlation_matrix[i][j] =
                             _get_correlation(portfolio[i].symbol, portfolio[j].symbol)
    /\ \A a \in AllSymbols : \A b \in AllSymbols :
           /\ _get_correlation(a, b) = _get_correlation(b, a)
           /\ a = b => _get_correlation(a, b) = 10
           /\ (a # b /\ ~PairInTable(a, b)) => _get_correlation(a, b) = 0
           /\ (a # b /\ <<a, b>> \in DOMAIN default_correlations) =>
                  _get_correlation(b, a) = default_correlations[<<a, b>>]
    /\ \A a \in AllSymbols \ DOMAIN default_volatilities : VolatilityOf(a) = 10

\* a matrix was built for a pair listed in the table in the other order,
\* and for a symbol of neither table
C12_Witness ==
    /\ pc = "returns_done"
    /\ Len(portfolio) = 2
    /\ portfolio[1].symbol = "GBPUSD" /\ portfolio[2].symbol = "EURUSD"
    /\ WellFormed(portfolio)
    /\ correlation_matrix = <<<<10, 7>>, <<7, 10>>>>
    /\ VolatilityOf("XAUUSD") = 10

(***************************************************************************)
(* The correlated returns.                                                 *)
(***************************************************************************)
\* Sylvester's criterion, on the matrix in tenths
PositiveDefinite(matrix) == \A k \in 1..Len(matrix) : LeadingMinor(matrix, k) > 0

\* lower is lower-triangular with a diagonal >= 0 and lower * lower^T is the
\* matrix, up to the rounding of thousandths
IsCholeskyFactorOf(lower, matrix) ==
    LET n == Len(matrix)
    IN  /\ Len(lower) = n
        /\ \A i \in 1..n : \A j \in 1..n :
               /\ j > i => lower[i][j] = 0
               /\ i = j => lower[i][j] >= 0
               /\ Abs(SumSeq(AsSeq([k \in 1..n |-> lower[i][k] * lower[j][k]]))
                      - 100000 * matrix[i][j]) <= 4000

ScaledByVolatility(vector) ==
    /\ Len(correlated_returns.values) = Len(portfolio)
    /\ \A i \in 1..Len(portfolio) :
           correlated_returns.values[i] = vector[i] * VolatilityOf(portfolio[i].symbol)

CholeskyApplied ==
    /\ IsCholeskyFactorOf(CholeskyFactor(correlation_matrix), correlation_matrix)
    /\ ScaledByVolatility(MatVec(CholeskyFactor(correlation_matrix), independent_returns))

DrawsThemselves ==
    ScaledByVolatility(AsSeq([i \in 1..Len(portfolio) |-> 1000 * independent_returns[i]]))

C13_WitnessCorrelated ==
    /\ pc = "returns_done"
    /\ Len(portfolio) = 2
    /\ WellFormed(portfolio)
    /\ portfolio[1].symbol = "EURUSD" /\ portfolio[2].symbol = "GBPUSD"
    /\ independent_returns = <<2, -1>>
    /\ correlated_returns = [path |-> "cholesky", values |-> <<16000, 6860>>]

(***************************************************************************)
(* The headline VaR.                                                       *)
(***************************************************************************)
\* C14: the var that _calculate_var reports is the Monte Carlo VaR (the
\* absolute value of the percentile of the simulated P&L), it is >= 0, and
\* expected_shortfall is 1.3 times var.
C14_HeadlineVarIsMonteCarlo ==
    pc = "risk_done" =>
        /\ var_results.var = var_results.monte_carlo_var
        /\ var_results.var >= 0
        /\ 10 * var_results.expected_shortfall = 13 * var_results.var
        /\ (var_results.var # 0) => var_results.var = Abs(rng.monte_carlo_percentile)

\* a simulated percentile of -1200.00 against a historical one of -500.00
C14_Witness ==
    /\ pc = "risk_done"
    /\ rng.monte_carlo_percentile = -120000
    /\ var_results.historical_var = 50000
    /\ var_results.var = 120000
    /\ var_results.expected_shortfall = 156000

(***************************************************************************)
(* The correlation risk of a position.                                     *)
(***************************************************************************)
\* the sum of |corr| of position k with every other position of the portfolio
SumOverOthers(pf, k) ==
    SumSeq(AsSeq([j \in 1..Len(pf) |->
        IF j # k THEN Abs(_get_correlation(pf[k].symbol, pf[j].symbol)) ELSE 0]))

\* C15: for every position of a portfolio, the reported correlation_risk is
\* the mean of |corr(symbol, other)| over the other positions: the sum of the
\* absolute correlations with the other positions divided by their number.
C15_CorrelationRiskIsMeanOverOthers ==
    (pc = "risk_done" /\ Len(portfolio) >= 2 /\ ~UnguardedStepFails) =>
        \A k \in 1..Len(portfolio) :
            risk_result.positions[k].correlation_risk.num * (Len(portfolio) - 1)
                = SumOverOthers(portfolio, k) * risk_result.positions[k].correlation_risk.den

\* what the code reports: the sum over the positions in another symbol,
\* divided by the number of all positions
C15_CorrelationRiskOverPortfolioSize ==
    (pc = "risk_done" /\ Len(portfolio) >= 1 /\ ~UnguardedStepFails) =>
        \A k \in 1..Len(portfolio) :
            LET others == {j \in 1..Len(portfolio) : portfolio[j].symbol # portfolio[k].symbol}
            IN  risk_result.positions[k].correlation_risk.num * Len(portfolio)
                    = SumSeq(AsSeq([j \in 1..Len(portfolio) |->
                          IF j \in others
                          THEN Abs(_get_correlation(portfolio[k].symbol, portfolio[j].symbol))
                          ELSE 0])) * risk_result.positions[k].correlation_risk.den

\* EURUSD next to GBPUSD: 0.7 / 2 is reported
C15_Witness ==
    /\ pc = "risk_done"
    /\ Len(portfolio) = 2
    /\ ~UnguardedStepFails
    /\ portfolio[1].symbol = "EURUSD" /\ portfolio[2].symbol = "GBPUSD"
    /\ risk_result.positions[1].correlation_risk = Ratio(7, 2)

(***************************************************************************)
(* The recommendations.                                                    *)
(***************************************************************************)
\* the message is in the list
Recommends(message) == \E k \in 1..Len(advice) : advice[k] = message

\* C16: for all metric values _generate_risk_recommendations returns a
\* non-empty list with at most one leverage message (the ">5" one iff
\* leverage > 5, the ">3" one iff 3 < leverage <= 5), at most one VaR message
\* (VaR% of a 10,000 account > 10, else > 5), at most one Sharpe message
\* (Sharpe < 0.5, else > 2), the drawdown message iff max_drawdown > 20, and
\* the single neutral statement iff no rule triggered.
C16_RecommendationRules ==
    pc = "recommendations_done" =>
        LET very_high == "Consider reducing leverage - current level is very high"
            approaching == "Monitor leverage levels - approaching high risk territory"
            exceeds == "Daily VaR exceeds 10% of account - consider reducing position sizes"
            elevated == "Daily VaR is elevated - monitor risk closely"
            low == "Risk-adjusted returns are low - review trading strategy"
            excellent == "Excellent risk-adjusted returns - maintain current strategy"
            concerning == "Maximum drawdown is concerning - implement stricter stop losses"
            neutral == "Portfolio risk levels are within acceptable ranges"
            \* var / 10000 * 100 of a var in hundredths, times 10000
            var_percentage == metrics.var
            triggered ==
                \/ metrics.leverage > 3000000
                \/ var_percentage > 50000
                \/ metrics.sharpe_ratio < 500 \/ metrics.sharpe_ratio > 2000
                \/ metrics.max_drawdown > 20000
        IN  /\ advice # << >>
            /\ \A j \in 1..Len(advice) : \A k \in 1..Len(advice) :
                   advice[j] = advice[k] => j = k
            /\ \A k \in 1..Len(advice) :
                   advice[k] \in {very_high, approaching, exceeds, elevated,
                                           low, excellent, concerning, neutral}
            /\ Recommends(very_high) <=> metrics.leverage > 5000000
            /\ Recommends(approaching) <=>
                   (metrics.leverage > 3000000 /\ metrics.leverage <= 5000000)
            /\ Recommends(exceeds) <=> var_percentage > 100000
            /\ Recommends(elevated) <=>
                   (var_percentage > 50000 /\ var_percentage <= 100000)
            /\ Recommends(low) <=> metrics.sharpe_ratio < 500
            /\ Recommends(excellent) <=> metrics.sharpe_ratio > 2000
            /\ Recommends(concerning) <=> metrics.max_drawdown > 20000
            /\ Recommends(neutral) <=> ~triggered
            /\ Recommends(neutral) => Len(advice) = 1

\* leverage above 5 with everything else in range: one leverage message,
\* and no neutral statement
C16_Witness ==
    /\ pc = "recommendations_done"
    /\ metrics.leverage = 5000001
    /\ metrics.var = 5 * account_balance
    /\ metrics.sharpe_ratio = 2000
    /\ metrics.max_drawdown = 20000
    /\ advice = <<"Consider reducing leverage - current level is very high">>

LacksEntryPrice(pf) == \E k \in 1..Len(pf) : pf[k].defect = "no_entry_price"

\* C18: run_scenario_analysis never raises; the returned map has an entry
\* for exactly the requested names that are among the four known ones
\* (unknown names are skipped without affecting the others); a scenario
\* whose computation fails (e.g. a position lacking entry_price) still
\* appears, with the zeroed scenario structure, and does not prevent the
\* remaining scenarios from being computed.
C18_FailingScenarioIsZeroed ==
    pc = "scenario_done" =>
        /\ ~raised
        /\ DOMAIN scenario_results = RequestedScenarios \cap KnownScenarios
        /\ LacksEntryPrice(portfolio) =>
               \A name \in DOMAIN scenario_results :
                   scenario_results[name] = _get_empty_scenario_result

\* what holds of the code: no exception, exactly the requested known names,
\* each result what its scenario alone gives on the portfolio, and the
\* zeroed structure for a position lacking entry_price in the three
\* scenarios that read the price themselves
C18_NeverRaisesExactNames ==
    pc = "scenario_done" =>
        /\ ~raised
        /\ DOMAIN scenario_results = RequestedScenarios \cap KnownScenarios
        /\ \A name \in DOMAIN scenario_results :
               /\ scenario_results[name] = run_scenario_analysis(portfolio, <<name>>).results[name]
               /\ (LacksEntryPrice(portfolio) /\ name # "correlation_breakdown")
                      => scenario_results[name] = _get_empty_scenario_result

\* a position without entry_price: market_crash is zeroed, while
\* correlation_breakdown reports its probability, no loss and the position
C18_Witness ==
    /\ pc = "scenario_done"
    /\ Len(portfolio) = 1
    /\ portfolio[1].defect = "no_entry_price"
    /\ scenarios = <<"market_crash", "correlation_breakdown">>
    /\ scenario_results["market_crash"] = _get_empty_scenario_result
    /\ scenario_results["correlation_breakdown"].probability = 10
    /\ scenario_results["correlation_breakdown"].expected_loss = 0
    /\ scenario_results["correlation_breakdown"].recovery_time = 120
    /\ Len(scenario_results["correlation_breakdown"].affected_positions) = 1

(***************************************************************************)
(* Failures inside detect_patterns.                                        *)
(***************************************************************************)
\* the families of the request
TypesOf(arg) == IF arg.is_none THEN DefaultTypes ELSE arg.names

\* what a requested family contributes when its failure is turned into an
\* empty result
FamilyOrEmpty(family) ==
    IF family \notin TypesOf(pattern_types) \/ missing_column \in ColumnsRead(family, data)
    THEN << >>
    ELSE IF family = "support_resistance" THEN _detect_support_resistance(data)
    ELSE IF family = "trends" THEN _detect_trends(data, rsi_higher_low)
    ELSE IF family = "candlestick" THEN _detect_candlestick_patterns(data)
    ELSE _detect_chart_patterns(data)

\* C19: detect_patterns never lets an error reach its caller: on an empty
\* price series it returns an empty list, and a detector family that fails
\* internally (here: on a frame that lacks a column it reads) contributes an
\* empty result while the patterns of the other requested families are
\* still returned.
C19_DetectPatternsNeverRaises ==
    pc \in {"detected", "failed"} =>
        /\ ~detect_raised
        /\ data = << >> => all_patterns = << >>
        /\ all_patterns = SortByConfidence(
               FamilyOrEmpty("support_resistance") \o FamilyOrEmpty("trends")
               \o FamilyOrEmpty("candlestick") \o FamilyOrEmpty("technical"))

\* what holds of the code: the call raises exactly when a requested family
\* reads a column the frame lacks, and returns the patterns of all requested
\* families otherwise; an empty frame with its columns gives an empty list
C19_RaisesOnMissingColumn ==
    pc \in {"detected", "failed"} =>
        /\ detect_raised <=>
               \E family \in TypesOf(pattern_types) :
                   missing_column \in ColumnsRead(family, data)
        /\ detect_raised => (pc = "failed" /\ all_patterns = << >>)
        /\ (data = << >> /\ ~detect_raised) => all_patterns = << >>

\* candlestick and technical are asked for on candles without an 'open'
\* column: the KeyError of the first candle leaves detect_patterns
C19_Witness ==
    /\ pc = "failed"
    /\ detect_raised
    /\ Len(data) = 7
    /\ missing_column = "open"
    /\ pattern_types = [is_none |-> FALSE, names |-> {"candlestick", "technical"}]

(***************************************************************************)
(* State shared between requests.                                          *)
(***************************************************************************)
\* an attribute written by one request and read by another request that
\* runs one of the given operations
Crosses(readers) ==
    \E w \in access_log : \E r \in access_log :
        /\ w.kind = "write"
        /\ r.kind = "read"
        /\ r.op \in readers
        /\ w.request # r.request
        /\ w.model = r.model
        /\ w.field = r.field

StatusReadsLastTrained == Crosses({"model_status"})

StatedDays(value) ==
    CASE value = "1d" -> 1 [] value = "5d" -> 5 [] value = "10d" -> 10
      [] value = "1w" -> 7 [] value = "2w" -> 14 [] value = "1m" -> 22
      [] value = "3m" -> 66 [] value = "6m" -> 132 [] value = "1y" -> 252
      [] OTHER -> 1

C21_TimeframeToDays ==
    pc = "timeframe_done" =>
        /\ ~days_result.raises
        /\ days_result.days = StatedDays(timeframe.value)

\* the conversion of the case variant 1M has returned
C21_Witness ==
    /\ pc = "timeframe_done"
    /\ timeframe.value = "1M"
    /\ days_result = [raises |-> FALSE, days |-> 1]

(***************************************************************************)
(* C22: for every candle the Doji matcher emits a pattern for that candle  *)
(* iff range = high - low > 0 and |close - open| / range < 0.10; a candle  *)
(* of zero range never matches; each Doji has confidence 0.6, signal       *)
(* neutral and start_time = end_time = the timestamp of the candle; and    *)
(* there is at most one Doji per candle.                                   *)
(***************************************************************************)
\* the positions in all_patterns of the patterns of that name on candle i
\* (0-based, as its timestamp)
Matches(name, i) ==
    {k \in 1..Len(all_patterns) :
        all_patterns[k].name = name /\ all_patterns[k].start_time = i}

C22_Doji ==
    (pc # "request" /\ ~detect_raised) =>
        /\ \A i \in 1..Len(data) :
              LET range == data[i].high - data[i].low
                  body == Abs(data[i].close - data[i].open)
              IN  /\ (Matches("Doji", i - 1) # {}) <=> (range > 0 /\ 10 * body < range)
                  /\ range = 0 => Matches("Doji", i - 1) = {}
                  /\ Cardinality(Matches("Doji", i - 1)) <= 1
        /\ \A p \in Range(all_patterns) :
              p.name = "Doji" =>
                  /\ p.confidence = 600
                  /\ p.signal = "neutral"
                  /\ p.start_time = p.end_time
                  /\ p.start_time \in 0..(Len(data) - 1)

\* a Doji was emitted on a candle whose body is not zero
C22_Witness ==
    /\ pc = "detected"
    /\ Len(data) = 1
    /\ data[1].close # data[1].open
    /\ Matches("Doji", 0) # {}

(***************************************************************************)
(* C23: for every candle the Hammer matcher fires iff body > 0 and         *)
(* lower_shadow > 2 x body and upper_shadow < body and lower_shadow > 0.6  *)
(* x range (confidence 0.75, bullish); the Shooting Star matcher fires on  *)
(* a candle iff the Hammer matcher fires on the candle reflected           *)
(* vertically (confidence 0.75, bearish); so no candle with low <=         *)
(* min(open, close) <= max(open, close) <= high is matched as both.        *)
(***************************************************************************)
\* the candle reflected about the middle of the price span
Reflected(c) ==
    LET axis == 2 * Base + MaxSpan
    IN  [open |-> axis - c.open, close |-> axis - c.close,
         high |-> axis - c.low, low |-> axis - c.high]

Ordered(c) == c.low <= Min2(c.open, c.close) /\ Max2(c.open, c.close) <= c.high

C23_HammerAndShootingStar ==
    (pc # "request" /\ ~detect_raised) =>
        /\ \A i \in 1..Len(data) :
              LET c == data[i]
                  body == Abs(c.close - c.open)
                  lower == Min2(c.open, c.close) - c.low
                  upper == c.high - Max2(c.open, c.close)
                  range == c.high - c.low
              IN  /\ (Matches("Hammer", i - 1) # {}) <=>
                        /\ body > 0
                        /\ lower > 2 * body
                        /\ upper < body
                        /\ 10 * lower > 6 * range
                  /\ (Matches("Shooting Star", i - 1) # {}) <=>
                        (_detect_hammer(<<Reflected(c)>>) # << >>)
                  /\ Ordered(c) =>
                        ~(Matches("Hammer", i - 1) # {} /\ Matches("Shooting Star", i - 1) # {})
        /\ \A p \in Range(all_patterns) :
              /\ p.name = "Hammer" => (p.confidence = 750 /\ p.signal = "bullish")
              /\ p.name = "Shooting Star" => (p.confidence = 750 /\ p.signal = "bearish")

\* a Shooting Star was emitted on a candle with a lower shadow
C23_Witness ==
    /\ pc = "detected"
    /\ Len(data) = 1
    /\ Ordered(data[1])
    /\ Min2(data[1].open, data[1].close) > data[1].low
    /\ Matches("Shooting Star", 0) # {}
    /\ Matches("Hammer", 0) = {}

(***************************************************************************)
(* C24: on the same random draws, replacing every position of a portfolio  *)
(* by the position of opposite sign (same size and entry price) negates    *)
(* the portfolio P&L of a Monte Carlo trial and leaves the portfolio P&L   *)
(* of a historical-simulation trial unchanged.                             *)
(***************************************************************************)
Opposite(pf) == AsSeq([k \in 1..Len(pf) |-> [pf[k] EXCEPT !.position = -@]])

C24_OppositePortfolio ==
    pc = "trial_done" =>
        /\ trial_pnl.method = "monte_carlo" =>
              MonteCarloTrial(Opposite(portfolio), independent_returns,
                              fallback_returns, rounding_up) = -trial_pnl.pnl
        /\ trial_pnl.method = "historical" =>
              HistoricalTrial(Opposite(portfolio), independent_returns) = trial_pnl.pnl

\* a Monte Carlo trial on a long and a short position has made a profit or
\* a loss
C24_Witness ==
    /\ pc = "trial_done"
    /\ trial_pnl.method = "monte_carlo"
    /\ trial_pnl.pnl # 0
    /\ \E i, j \in 1..Len(portfolio) :
          portfolio[i].position > 0 /\ portfolio[j].position < 0

\* a historical trial on a short position has made a profit or a loss
C24_WitnessHistorical ==
    /\ pc = "trial_done"
    /\ trial_pnl.method = "historical"
    /\ trial_pnl.pnl # 0
    /\ \E i \in 1..Len(portfolio) : portfolio[i].position < 0

(***************************************************************************)
(* C25: for every portfolio the correlation_breakdown scenario reports a   *)
(* non-negative expected_loss (portfolio volatility without correlation    *)
(* terms minus portfolio volatility with them, x 10,000 x 1.65),           *)
(* worst_case_loss = 2 x expected_loss, probability 0.10, and lists every  *)
(* position as affected; for a single-position portfolio expected_loss and *)
(* worst_case_loss are 0.                                                  *)
(***************************************************************************)
NoDefect(pf) == \A k \in 1..Len(pf) : pf[k].defect = "none"

\* the rest of the statement, without the sign of expected_loss
BreakdownReport(pf, r) ==
    LET no_diversification_vol == _calculate_portfolio_volatility(pf, FALSE)
        current_portfolio_vol == _calculate_portfolio_volatility(pf, TRUE)
    IN  /\ r.expected_loss =
              (165 * DiversificationLoss(no_diversification_vol, current_portfolio_vol))
                  \div no_diversification_vol.total
        /\ r.worst_case_loss = 2 * r.expected_loss
        /\ r.probability = 10
        /\ Len(r.affected_positions) = Len(pf)
        /\ \A k \in 1..Len(pf) : r.affected_positions[k].symbol = pf[k].symbol
        /\ Len(pf) = 1 => (r.expected_loss = 0 /\ r.worst_case_loss = 0)

C25_BreakdownLossNonNegative ==
    (/\ pc = "scenario_done"
     /\ "correlation_breakdown" \in DOMAIN scenario_results
     /\ NoDefect(portfolio)) =>
        /\ scenario_results["correlation_breakdown"].expected_loss >= 0
        /\ BreakdownReport(portfolio, scenario_results["correlation_breakdown"])

\* what holds of the code: the report is as stated but for the sign, and on
\* positions of symbols that are not negatively correlated the loss is
\* never positive
C25_BreakdownLossOfPositiveCorrelation ==
    (/\ pc = "scenario_done"
     /\ "correlation_breakdown" \in DOMAIN scenario_results
     /\ NoDefect(portfolio)) =>
        /\ BreakdownReport(portfolio, scenario_results["correlation_breakdown"])
        /\ (\A i, j \in 1..Len(portfolio) :
                _get_correlation(portfolio[i].symbol, portfolio[j].symbol) >= 0)
              => scenario_results["correlation_breakdown"].expected_loss <= 0

\* long EURUSD and long GBPUSD, correlation 0.7: the expected loss is
\* negative and the worst case is below it
C25_Witness ==
    /\ pc = "scenario_done"
    /\ portfolio = <<Position("EURUSD", 1, 1, "none"), Position("GBPUSD", 1, 1, "none")>>
    /\ "correlation_breakdown" \in DOMAIN scenario_results
    /\ scenario_results["correlation_breakdown"].expected_loss < 0
    /\ scenario_results["correlation_breakdown"].worst_case_loss
           < scenario_results["correlation_breakdown"].expected_loss

(***************************************************************************)
(* C26: for confidence levels above 0.5 the parametric VaR is non-negative *)
(* for every portfolio, and it is 0 only when every position has zero      *)
(* notional: a portfolio with a position of non-zero notional in a symbol  *)
(* of positive volatility gets a strictly positive parametric VaR,         *)
(* whatever the correlations between its symbols.                          *)
(***************************************************************************)
\* the sign of z / 1000 * sqrt(radicand / scale)
SignOfParametricVar(v) ==
    IF v.radicand = 0 \/ v.z = 0 THEN 0 ELSE IF v.z > 0 THEN 1 ELSE -1

HasNotional(pf) ==
    \E k \in 1..Len(pf) : position_value(pf[k]) # 0 /\ VolatilityOf(pf[k].symbol) > 0

C26_ParametricVarPositive ==
    (pc = "parametric_done" /\ confidence_level.value > 50) =>
        /\ SignOfParametricVar(var_results.parametric_var) >= 0
        /\ HasNotional(portfolio) => SignOfParametricVar(var_results.parametric_var) = 1

\* what holds of the code: never negative above 0.5, and strictly positive
\* when no two positions of the portfolio are negatively correlated
C26_ParametricVarNonNegative ==
    (pc = "parametric_done" /\ confidence_level.value > 50) =>
        /\ SignOfParametricVar(var_results.parametric_var) >= 0
        /\ (/\ HasNotional(portfolio)
            /\ \A i, j \in 1..Len(portfolio) :
                  _get_correlation(portfolio[i].symbol, portfolio[j].symbol) >= 0)
              => SignOfParametricVar(var_results.parametric_var) = 1

\* long EURUSD and long USDCHF of notional 2 each, correlation -0.8: the
\* variance is clamped to 0 and the parametric VaR is 0
C26_Witness ==
    /\ pc = "parametric_done"
    /\ confidence_level.value = 99
    /\ portfolio = <<Position("EURUSD", 1, 1, "none"), Position("USDCHF", 1, 2, "none")>>
    /\ var_results.parametric_var.radicand = 0

(***************************************************************************)
(* C27: within the result of one detect_patterns call, for any series and  *)
(* any requested families, the pattern ids are pairwise distinct, so the   *)
(* reliability map computed from that result has exactly as many entries   *)
(* as there are patterns and no score overwrites another.                  *)
(***************************************************************************)
C27_DistinctIds ==
    /\ (pc \in {"detected", "scored"}) =>
          \A i, j \in 1..Len(all_patterns) :
              i # j => all_patterns[i].id # all_patterns[j].id
    /\ pc = "scored" =>
          /\ patterns_arg = all_patterns
          /\ Cardinality(DOMAIN reliability_scores) = Len(all_patterns)
          /\ \A k \in 1..Len(all_patterns) :
                reliability_scores[all_patterns[k].id]
                    = ReliabilityOf(data, has_volume, all_patterns[k])

\* a scored result with a level of each kind, a trend and two candlestick
\* patterns of one name
C27_Witness ==
    /\ pc = "scored"
    /\ Fires("Resistance Level")
    /\ Fires("Support Level")
    /\ \E p \in Range(all_patterns) : p.type = "trends"
    /\ \E l, m \in 1..Len(all_patterns) :
          /\ l < m
          /\ all_patterns[l].type = "candlestick"
          /\ all_patterns[l].name = all_patterns[m].name

(***************************************************************************)
(* C28: the support/resistance detector emits one Resistance Level         *)
(* (Support Level) pattern for every cluster of at least 2 extracted peaks *)
(* (valleys), the case of exactly 2 extracted peaks included: a pattern of *)
(* confidence min(0.9, strength / 10), signal bearish (bullish),           *)
(* target_price = level and touches = cluster size.                        *)
(***************************************************************************)
\* the patterns of that name, in the order of the list of the detector
LevelPatterns(name) == SelectSeq(_detect_support_resistance(data), LAMBDA p : p.name = name)

\* one pattern of that name and signal for each cluster, in order
OnePatternPerCluster(name, signal, clusters) ==
    /\ Len(LevelPatterns(name)) = Len(clusters)
    /\ \A k \in 1..Len(clusters) :
          LET p == LevelPatterns(name)[k]
          IN  /\ p \in Range(all_patterns)
              /\ p.signal = signal
              /\ p.level_sum = clusters[k].level_sum
              /\ p.touches = clusters[k].touches
              /\ p.touches >= 2
              /\ p.confidence = LevelConfidence(clusters[k].strength_sq)

ExtractedPeaks == Take(Column(data, "high"), _find_significant_peaks(Column(data, "high")))

ExtractedValleys == Take(Column(data, "low"), _find_significant_valleys(Column(data, "low")))

RequestsLevels ==
    /\ pc \in {"detected", "scored"}
    /\ Requested(pattern_types, "support_resistance")

C28_PatternForEveryCluster ==
    RequestsLevels =>
        /\ OnePatternPerCluster("Resistance Level", "bearish", _cluster_levels(ExtractedPeaks))
        /\ OnePatternPerCluster("Support Level", "bullish", _cluster_levels(ExtractedValleys))

\* what holds of the code: the clusters of the peaks (valleys) yield their
\* patterns only when more than two peaks (valleys) were extracted
C28_PatternForEveryClusterOfThree ==
    RequestsLevels =>
        /\ OnePatternPerCluster("Resistance Level", "bearish",
              IF Len(ExtractedPeaks) > 2 THEN _cluster_levels(ExtractedPeaks) ELSE << >>)
        /\ OnePatternPerCluster("Support Level", "bullish",
              IF Len(ExtractedValleys) > 2 THEN _cluster_levels(ExtractedValleys) ELSE << >>)

\* exactly two valleys were extracted, they form a cluster, and no Support
\* Level was emitted
C28_Witness ==
    /\ RequestsLevels
    /\ Len(ExtractedValleys) = 2
    /\ Len(_cluster_levels(ExtractedValleys)) = 1
    /\ ~Fires("Support Level")

(***************************************************************************)
(* C29: in the broker connector, after any sequence of initialize,         *)
(* connect_with_credentials, disconnect and data-query operations,         *)
(* mt5_service.initialized is true only if the terminal connection is      *)
(* currently initialized and the most recent initialize/login attempt      *)
(* succeeded; a connect_with_credentials that fails after a successful     *)
(* initialization leaves initialized false.                                *)
(***************************************************************************)
C29_InitializedFlagSound ==
    initialized =>
        /\ terminal.initialized
        /\ last_attempt = "succeeded"

\* what holds of the code: the flag rises only in a successful attempt that
\* leaves the terminal connected, and falls only in a disconnect
C29_FlagRisesOnSuccessOnly ==
    [][/\ (~initialized /\ initialized') =>
              (terminal'.initialized /\ last_attempt' = "succeeded")
       /\ (initialized /\ ~initialized') => response'.endpoint = "disconnect"]_vars

\* a connect has failed after a successful initialization: the terminal is
\* shut down, the flag is still set, and a symbol query is refused without
\* an attempt to initialize
C29_Witness ==
    /\ pc = "broker"
    /\ initialized
    /\ ~terminal.initialized
    /\ last_attempt = "failed"
    /\ response = [endpoint |-> "symbol_info", status |-> 500]

\* C30: in the model cache, whatever the interleaving of the requests that
\* lazily initialise a model, each model is constructed at most once, and a
\* slot that holds an instance is never given another instance nor emptied.
C30_SingleInstance ==
    [][\A name \in ModelNames :
           /\ constructions'[name] <= 1
           /\ models[name] # 0 => models'[name] = models[name]]_vars

\* what the cache does keep: a slot that holds an instance is never emptied,
\* and it holds the instance constructed last
C30_SlotNeverEmptied ==
    [][\A name \in ModelNames :
           /\ models[name] # 0 => models'[name] # 0
           /\ models'[name] <= constructions'[name]]_vars

\* after initialize_models at startup (the only step here that constructs a
\* price predictor) no request constructs anything
C30_EagerCacheSingleInstance ==
    constructions["price_predictor"] = 1 =>
        \A name \in ModelNames : constructions[name] = 1 /\ models[name] = 1

\* two concurrent /analyze/patterns requests both found the slot empty, both
\* constructed a detector, the second store replaced the first, and the two
\* requests worked on different instances
C30_Witness ==
    /\ pc = "cache"
    /\ constructions["pattern_detector"] = 2
    /\ models["pattern_detector"] = 2
    /\ \E t, u \in Handlers :
           /\ handlers[t] = [at |-> "done", name |-> "pattern_detector", instance |-> 1]
           /\ handlers[u] = [at |-> "done", name |-> "pattern_detector", instance |-> 2]

====
